---- MODULE Spec2Model ----
(***************************************************************************)
(* Model of the websocket subsystem of github.com/janeprather/xpweb:       *)
(* the request history ("Ledger", type reqHistory), the request id counter *)
(* and request builder (WSClient.NewReq), WSClient.Send / Connect / Close, *)
(* and the background read and reconnect loops.                            *)
(*                                                                         *)
(* Two specifications are defined over the same variables:                 *)
(*   SpecLedger  concurrent goroutines calling the reqHistory methods      *)
(*               add / get / delete / applyToResult directly;              *)
(*   Spec        the WSClient: callers running NewReq, Send, Connect and   *)
(*               Close concurrently with the read and reconnect loops.     *)
(***************************************************************************)
EXTENDS Integers, Sequences, FiniteSets, TLC

(***************************************************************************)
(* Bounds of the model.                                                    *)
(***************************************************************************)

\* The capacity of the request history. The source sets it to 1000; the
\* model is parametric in it and is checked with a small value, so that the
\* eviction branch of reqHistory.add is reached.
maxReqHistory == 2

\* Request ids that a caller can put into a WSReq: 1 .. MaxReqID, always
\* more ids than the history can hold.
MaxReqID == maxReqHistory + 1

\* Transport handles websocket.Dial can hand out in one run of the model.
MaxConns == 1

\* Calls of WSClient.NewReq in one run of the model.
MaxDraws == 2

\* The connections dialled in a run of the connection-lifecycle
\* specification.
MaxDials == 3

\* Characters in a key of the data object of an update frame.
MaxKeyLen == 2

\* Keys in the data object of an update frame.
MaxKeys == 2

\* Largest id of a command (dataref) in a listing of the simulator.
MaxEntID == 1

\* Length of a listing of the simulator.
MaxListing == 2

(***************************************************************************)
(* Requests (type WSReq) and result messages (type WSMessageResult).       *)
(***************************************************************************)

ReqIDs == 1..MaxReqID

\* Request type tags a builder method sets (a representative pair).
ReqTypes == {"dataref_set_values", "command_subscribe_is_active"}

\* The params payload: "p" is a payload json.Marshal accepts, "nan" one it
\* rejects (Params is `any`; a NaN float value is an unsupported value).
ReqParams == {"p", "nan"}

WSReq == [ReqID : ReqIDs, Type : ReqTypes, Params : ReqParams]

\* The nil *WSReq.
NilReq == [ReqID |-> 0, Type |-> "nil", Params |-> "nil"]

\* An empty Go map.
EmptyMap == [k \in {} |-> NilReq]

(***************************************************************************)
(* reqHistory: the map operations, each run under reqHistory.lock.         *)
(***************************************************************************)

RECURSIVE SortDesc(_)
\* Mutant of SortAsc: the keys sorted in descending order.
SortDesc(S) ==
    IF S = {} THEN << >>
    ELSE LET m == CHOOSE x \in S : \A y \in S : x >= y
         IN  << m >> \o SortDesc(S \ {m})

RECURSIVE SortAsc(_)
\* slices.Sort over the collected keys: ascending sequence of a set of ids.
SortAsc(S) ==
    IF S = {} THEN << >>
    ELSE LET m == CHOOSE x \in S : \A y \in S : x <= y
         IN  << m >> \o SortAsc(S \ {m})

RECURSIVE DeleteAll(_, _)
\* delete(rh.requests, removeID) for every removeID of the sequence ids.
DeleteAll(reqs, ids) ==
    IF ids = << >> THEN reqs
    ELSE DeleteAll([k \in DOMAIN reqs \ {Head(ids)} |-> reqs[k]], Tail(ids))

\* rh.requests[req.ReqID] = req
MapPut(reqs, req) ==
    [k \in DOMAIN reqs \cup {req.ReqID} |-> IF k = req.ReqID THEN req ELSE reqs[k]]

\* Mutant of HistAdd: the request is stored and the map is never trimmed.
HistAddNoTrim(reqs, req) == MapPut(reqs, req)

\* Mutant of HistAdd: the trim spares the request just stored.
HistAddKeepNew(reqs, req) ==
    LET stored       == MapPut(reqs, req)
        requestCount == Cardinality(DOMAIN stored)
    IN  IF requestCount > maxReqHistory
        THEN LET numToTrim == requestCount - maxReqHistory
                 reqIDs    == SortAsc(DOMAIN stored \ {req.ReqID})
             IN  DeleteAll(stored, SubSeq(reqIDs, 1, numToTrim))
        ELSE stored

\* reqHistory.add: store, then trim the lowest ids down to maxReqHistory.
HistAdd(reqs, req) ==
    LET stored       == MapPut(reqs, req)
        requestCount == Cardinality(DOMAIN stored)
    IN  IF requestCount > maxReqHistory
        THEN LET numToTrim == requestCount - maxReqHistory
                 reqIDs    == SortAsc(DOMAIN stored)
             IN  DeleteAll(stored, SubSeq(reqIDs, 1, numToTrim))
        ELSE stored

\* Mutant of HistGet: the lookup misses every key.
HistGetNil(reqs, reqID) == NilReq

\* reqHistory.get: the stored request, or nil.
HistGet(reqs, reqID) ==
    IF reqID \in DOMAIN reqs THEN reqs[reqID] ELSE NilReq

\* Mutant of HistDelete: nothing is deleted.
HistDeleteNone(reqs, reqID) == reqs

\* reqHistory.delete
HistDelete(reqs, reqID) ==
    [k \in DOMAIN reqs \ {reqID} |-> reqs[k]]

(***************************************************************************)
(* State.                                                                  *)
(***************************************************************************)

VARIABLES
    requests,   \* reqHistory.requests: map from request id to *WSReq
    live,       \* history: per id the request most recently added under it
                \* and neither removed nor evicted since
    lt,         \* SpecLedger: per goroutine, its position inside applyToResult
    lastOp,     \* SpecLedger: observation of the most recently completed call
    rhlock,     \* SpecLock: reqHistory.lock, the goroutine that holds it for
                \* writing and the goroutines that hold it for reading
    messageID,  \* WSClient.messageID
    drawn,      \* history: the ids NewReq returned, in the order of the draws
    conn,       \* WSClient.conn: 0 is nil, otherwise a transport handle
    tstate,     \* per transport handle, the state of the transport
    handlers,   \* which of the three handlers the ClientConfig registered
    th,         \* per caller and per reconnect loop, its position
    rl,         \* per read loop, its position and the message it dispatches
    panic,      \* "none", or the call in which the process panicked
    cframe,     \* SpecCodec: the inbound frame handed to the codec
    cout,       \* SpecCodec: what toMessage returned for it
    byID,       \* Client.commandsByID (datarefsByID): map from id to entity
    byName,     \* Client.commandsByName (datarefsByName): map from name to entity
    wlocked,    \* whether commandsLock (datarefsLock) is held for writing
    ld,         \* SpecCache: the goroutine in loadCommands (loadDatarefs)
    rd,         \* SpecCache: the goroutine reading the cache
    client,     \* what NewClient returned, and for which kind of config
    drefs       \* SpecLoad: LoadCache's position, and the dataref cache with
                \* its lock while the maps above are the command cache

ledgerVars == << requests, live >>
harnessVars == << lt, lastOp, rhlock >>
clientVars == << messageID, drawn, conn, tstate, handlers, th, rl, panic >>
codecVars == << cframe, cout >>
cacheVars == << byID, byName, wlocked, ld, rd, client, drefs >>

vars == << requests, live, lt, lastOp, rhlock, messageID, drawn, conn, tstate, handlers,
           th, rl, panic, cframe, cout, byID, byName, wlocked, ld, rd, client, drefs >>

(***************************************************************************)
(* The history variable live, kept from what the calls are observed to do. *)
(***************************************************************************)

\* Ids that were stored before an add of req (or are req's) and are gone
\* after it.
Dropped(before, req, after) == (DOMAIN before \cup {req.ReqID}) \ DOMAIN after

\* live after an add of req that made the ids of gone disappear.
LiveAdd(lv, req, gone) ==
    [k \in (DOMAIN lv \cup {req.ReqID}) \ gone |-> IF k = req.ReqID THEN req ELSE lv[k]]

\* live after a remove of reqID.
LiveRemove(lv, reqID) == [k \in DOMAIN lv \ {reqID} |-> lv[k]]

(***************************************************************************)
(* The goroutines of SpecLedger, which call the reqHistory methods.        *)
(***************************************************************************)

\* Two goroutines: every interleaving of one call with another is covered.
LedgerThreads == {"g1", "g2"}

\* The requests the goroutines add: the history reads nothing but ReqID.
LedgerReqs == {r \in WSReq : r.Type = "dataref_set_values"}

\* A goroutine outside any reqHistory call.
LtIdle == [pc |-> "idle", id |-> 0, req |-> NilReq]

\* reqHistory.lock, a sync.RWMutex, held by nobody.
RhFree == [writer |-> "none", readers |-> {}]

NoOp == [op |-> "none", id |-> 0, arg |-> NilReq, ret |-> NilReq, dropped |-> {},
         again |-> FALSE]

(***************************************************************************)
(* The WSClient: state after NewClient.                                    *)
(***************************************************************************)

Handles == 1..MaxConns

\* The caller's goroutine: the API is used from one goroutine, which runs
\* concurrently with the read loops and the reconnect loops.
Callers == {<< "caller", 1 >>}

\* The reconnect loop that read loop h starts, if it does.
Reconnects == {"reconnect"} \X Handles

Threads == Callers \cup Reconnects

\* The requests the caller sends: one per id, with a payload that marshals.
SendReqs == {r \in WSReq : r.Type = "dataref_set_values" /\ r.Params = "p"}

\* The ClientConfig's handlers: none registered, or all three.
NoHandlers == [result |-> FALSE, dataref |-> FALSE, command |-> FALSE]
AllHandlers == [result |-> TRUE, dataref |-> TRUE, command |-> TRUE]
HandlerConfigs == {NoHandlers, AllHandlers}

\* A goroutine at position pc; op, ret and req describe the call it is in
\* or has just returned from.
Th(pc, op, ret, req) == [pc |-> pc, op |-> op, ret |-> ret, req |-> req]

ThIdle == Th("idle", "none", "none", NilReq)
ThNone == Th("none", "none", "none", NilReq)

\* A read loop at position pc, dispatching a message of the given kind.
\* c is the connection the loop's Receive was called with (0 outside a
\* Receive).
Rl(pc, kind, id, req) == [pc |-> pc, c |-> 0, kind |-> kind, id |-> id, req |-> req]

RlNone == Rl("none", "none", 0, NilReq)
RlRecv == Rl("recv", "none", 0, NilReq)

\* A read loop inside websocket.JSON.Receive(c, &inMsg).
RlBlocked(c) == [Rl("blocked", "none", 0, NilReq) EXCEPT !.c = c]

\* No frame is with the codec, and toMessage has returned nothing.
NoFrame == [type |-> "none", data |-> << >>]
NoOut == [err |-> "pending", variant |-> "none", data |-> << >>]

\* No cached entity: the nil *Command (*Dataref); its ID reads as zero and
\* its Name as the empty string in GetCommandID and GetCommandName.
NilEnt == [ID |-> 0, Name |-> ""]

\* The loading goroutine outside loadCommands (loadDatarefs): listing is the
\* listing the maps were last made for, err what the last call returned.
LdIdle == [pc |-> "idle", listing |-> << >>, i |-> 0, err |-> "none"]

\* The reading goroutine outside any call.
RdIdle == [pc |-> "idle", op |-> "none", name |-> "", id |-> 0, ret |-> NilEnt,
           ids |-> {}, todo |-> {}, refs |-> << >>, http |-> FALSE, err |-> "none"]

\* No LoadCache is running and the dataref maps are nil.
DrefsIdle == [pc |-> "idle", ret |-> "none", listing |-> << >>, i |-> 0,
              byID |-> << >>, byName |-> << >>, locked |-> FALSE]

\* The client NewClient returns for a config that is not nil and leaves the
\* URL empty.
ReadyClient == [st |-> "ready", url |-> "default", cfg |-> "set"]

\* NewClient leaves the cache maps nil (lookups find nothing) and the locks
\* free.
InitCache ==
    /\ byID = EmptyMap
    /\ byName = EmptyMap
    /\ wlocked = FALSE
    /\ ld = LdIdle
    /\ rd = RdIdle
    /\ client = ReadyClient
    /\ drefs = DrefsIdle

InitCodec ==
    /\ cframe = NoFrame
    /\ cout = NoOut

\* NewClient: no connection, message id 0, an empty request history.
InitClient ==
    /\ InitCache
    /\ InitCodec
    /\ messageID = 0
    /\ drawn = << >>
    /\ conn = 0
    /\ tstate = [h \in Handles |-> "none"]
    /\ th = [t \in Threads |-> IF t \in Callers THEN ThIdle ELSE ThNone]
    /\ rl = [h \in Handles |-> RlNone]
    /\ panic = "none"

Init ==
    /\ requests = EmptyMap
    /\ live = EmptyMap
    /\ lt = [t \in LedgerThreads |-> LtIdle]
    /\ lastOp = NoOp
    /\ rhlock = RhFree
    /\ InitClient
    /\ handlers \in HandlerConfigs

\* Mutant of Return: a reconnect loop gives up after a failed Connect.
ReturnGiveUp(t, op, ret, req) ==
    IF t \in Callers
    THEN [th EXCEPT ![t] = Th("returned", op, ret, req)]
    ELSE [th EXCEPT ![t] = Th("done", "none", "none", NilReq)]

\* Mutant of Return: the caller is not told about an error.
ReturnNoError(t, op, ret, req) ==
    IF t \in Callers
    THEN [th EXCEPT ![t] = Th("returned", op, "nil", req)]
    ELSE [th EXCEPT ![t] = IF ret = "nil" THEN Th("done", "none", "none", NilReq)
                           ELSE ThIdle]

\* A goroutine returns from the call op with result ret. A caller holds the
\* result until its next call; a reconnect loop ends when Connect returned
\* nil and otherwise sleeps reconnectFreq and calls Connect again.
Return(t, op, ret, req) ==
    IF t \in Callers
    THEN [th EXCEPT ![t] = Th("returned", op, ret, req)]
    ELSE [th EXCEPT ![t] = IF ret = "nil" THEN Th("done", "none", "none", NilReq)
                           ELSE ThIdle]

\* A caller goes on after a call returned.
Resume(t) ==
    /\ panic = "none"
    /\ t \in Callers /\ th[t].pc = "returned"
    /\ th' = [th EXCEPT ![t] = ThIdle]
    /\ UNCHANGED << ledgerVars, harnessVars, codecVars, cacheVars, messageID, drawn, conn, tstate, handlers, rl,
                    panic >>

(***************************************************************************)
(* Request ids: WSClient.NewReq.                                           *)
(***************************************************************************)

\* Mutant of MessageIDAdd: the counter is read and not incremented.
MessageIDLoad(cur) == cur

\* atomic.Uint64.Add(1): the new value (MaxDraws keeps it far below 2^64).
MessageIDAdd(cur) == cur + 1

\* wsc.NewReq(): one atomic add on messageID; the value is the request's id.
NewReq(t) ==
    /\ panic = "none"
    /\ t \in Callers /\ th[t].pc = "idle"
    /\ Len(drawn) < MaxDraws
    /\ messageID' = MessageIDAdd(messageID)
    /\ drawn' = Append(drawn, messageID')
    /\ UNCHANGED << ledgerVars, harnessVars, codecVars, cacheVars, conn, tstate, handlers, th, rl, panic >>

(***************************************************************************)
(* WSClient.Send.                                                          *)
(***************************************************************************)

\* Mutant of SendAdd: Send goes to the write without the add.
SendAddSkip(t, req) ==
    /\ panic = "none"
    /\ t \in Callers /\ th[t].pc = "idle"
    /\ th' = [th EXCEPT ![t] = Th("send_write", "send", "none", req)]
    /\ UNCHANGED << ledgerVars, harnessVars, codecVars, cacheVars, messageID, drawn, conn, tstate, handlers, rl,
                    panic >>

\* Send, line 102: c.reqHistory.add(req).
SendAdd(t, req) ==
    /\ panic = "none"
    /\ t \in Callers /\ th[t].pc = "idle"
    /\ requests' = HistAdd(requests, req)
    /\ live' = LiveAdd(live, req, Dropped(requests, req, requests'))
    /\ th' = [th EXCEPT ![t] = Th("send_write", "send", "none", req)]
    /\ UNCHANGED << harnessVars, codecVars, cacheVars, messageID, drawn, conn, tstate, handlers, rl, panic >>

\* websocket.JSON.Send(ws, req) for req and the transport state st of ws
\* ("nil" for a nil *Conn): the set of results the call can have. The codec
\* marshals first and returns a marshalling error; it then locks ws.wio,
\* which is a nil pointer dereference for a nil ws; a write on a transport
\* that was closed or reset fails; after the peer closed its side a write
\* can still be accepted.
JSONSend(req, st) ==
    IF req.Params = "nan" THEN {"marshal_error"}
    ELSE CASE st = "nil"    -> {"panic"}
           [] st = "open"   -> {"nil"}
           [] st = "eof"    -> {"nil", "write_error"}
           [] OTHER         -> {"write_error"}

\* Mutant of SendFailed: a failed send takes its request out of the history.
SendFailedRetract(reqs, req) == HistDelete(reqs, req.ReqID)

\* Send, lines 104-106: the history after JSON.Send returned an error.
SendFailed(reqs, req) == reqs

\* Send, lines 104-108: JSON.Send on the current c.conn; its error, or nil,
\* is returned.
SendWrite(t) ==
    /\ panic = "none"
    /\ th[t].pc = "send_write"
    /\ LET req == th[t].req
           st  == IF conn = 0 THEN "nil" ELSE tstate[conn]
       IN  \E res \in JSONSend(req, st) :
             IF res = "panic"
             THEN /\ panic' = "send"
                  /\ UNCHANGED << th, requests >>
             ELSE /\ th' = Return(t, "send", res, req)
                  /\ requests' = IF res = "nil" THEN requests
                                 ELSE SendFailed(requests, req)
                  /\ UNCHANGED panic
    /\ live' = IF requests' = requests THEN live ELSE LiveRemove(live, th[t].req.ReqID)
    /\ UNCHANGED << harnessVars, codecVars, cacheVars, messageID, drawn, conn, tstate, handlers, rl >>

(***************************************************************************)
(* WSClient.Connect and WSClient.Close, run by a caller or by a reconnect  *)
(* loop. WSClient.conn is read and written without synchronisation: every  *)
(* access is a step of its own.                                            *)
(***************************************************************************)

\* Connect, line 114 (and Close, line 127, when conn is not nil).
ConnectCheck(t) ==
    /\ panic = "none"
    /\ th[t].pc = "idle"
    /\ th' = [th EXCEPT ![t] = Th(IF conn # 0 THEN "k_close" ELSE "k_dial",
                                  "connect", "none", NilReq)]
    /\ UNCHANGED << ledgerVars, harnessVars, codecVars, cacheVars, messageID, drawn, conn, tstate, handlers,
                    rl, panic >>

\* Close, line 127, called by a caller: nothing to do when conn is nil.
CloseCheck(t) ==
    /\ panic = "none"
    /\ t \in Callers /\ th[t].pc = "idle"
    /\ th' = IF conn # 0
             THEN [th EXCEPT ![t] = Th("x_close", "close", "none", NilReq)]
             ELSE Return(t, "close", "nil", NilReq)
    /\ UNCHANGED << ledgerVars, harnessVars, codecVars, cacheVars, messageID, drawn, conn, tstate, handlers,
                    rl, panic >>

\* Close, line 128: xpc.conn.Close() on the current value of conn; a nil
\* conn (set by another goroutine since the check) is dereferenced.
CloseConn(t) ==
    /\ panic = "none"
    /\ th[t].pc \in {"k_close", "x_close"}
    /\ IF conn = 0
       THEN /\ panic' = "close"
            /\ UNCHANGED << th, tstate >>
       ELSE /\ tstate' = [tstate EXCEPT ![conn] = "closed"]
            /\ th' = [th EXCEPT ![t].pc = IF th[t].pc = "x_close" THEN "x_nil" ELSE "k_nil"]
            /\ UNCHANGED panic
    /\ UNCHANGED << ledgerVars, harnessVars, codecVars, cacheVars, messageID, drawn, conn, handlers, rl >>

\* Mutant of CloseNil: Close returns and leaves the handle in conn.
CloseNilKeep(t) ==
    /\ panic = "none"
    /\ th[t].pc \in {"k_nil", "x_nil"}
    /\ th' = IF th[t].pc = "x_nil"
             THEN Return(t, "close", "nil", NilReq)
             ELSE [th EXCEPT ![t].pc = "k_dial"]
    /\ UNCHANGED << ledgerVars, harnessVars, codecVars, cacheVars, messageID, drawn, conn, tstate, handlers, rl,
                    panic >>

\* Close, line 129: xpc.conn = nil.
CloseNil(t) ==
    /\ panic = "none"
    /\ th[t].pc \in {"k_nil", "x_nil"}
    /\ conn' = 0
    /\ th' = IF th[t].pc = "x_nil"
             THEN Return(t, "close", "nil", NilReq)
             ELSE [th EXCEPT ![t].pc = "k_dial"]
    /\ UNCHANGED << ledgerVars, harnessVars, codecVars, cacheVars, messageID, drawn, tstate, handlers, rl,
                    panic >>

\* The handle a successful websocket.Dial returns: the next one not handed
\* out yet.
FreshHandle ==
    CHOOSE h \in DOMAIN tstate :
        tstate[h] = "none" /\ \A g \in DOMAIN tstate : g < h => tstate[g] # "none"

\* Mutant of ConnectDial: a successful Dial begins with an empty history
\* and a message id of zero.
ConnectDialFresh(t) ==
    /\ panic = "none"
    /\ th[t].pc = "k_dial"
    /\ \/ /\ \E h \in DOMAIN tstate : tstate[h] = "none"
          /\ conn' = FreshHandle
          /\ tstate' = [tstate EXCEPT ![FreshHandle] = "open"]
          /\ rl' = [rl EXCEPT ![FreshHandle] = RlRecv]
          /\ th' = Return(t, "connect", "nil", NilReq)
          /\ requests' = EmptyMap
          /\ live' = EmptyMap
          /\ messageID' = 0
       \/ /\ conn' = 0
          /\ th' = Return(t, "connect", "dial_error", NilReq)
          /\ UNCHANGED << tstate, rl, requests, live, messageID >>
    /\ UNCHANGED << harnessVars, codecVars, cacheVars, drawn, handlers, panic >>

\* Connect, lines 117-122: a successful Dial stores the new handle in conn
\* and starts a read loop; a failed Dial stores nil and returns the error.
ConnectDial(t) ==
    /\ panic = "none"
    /\ th[t].pc = "k_dial"
    /\ \/ /\ \E h \in DOMAIN tstate : tstate[h] = "none"
          /\ conn' = FreshHandle
          /\ tstate' = [tstate EXCEPT ![FreshHandle] = "open"]
          /\ rl' = [rl EXCEPT ![FreshHandle] = RlRecv]
          /\ th' = Return(t, "connect", "nil", NilReq)
       \/ /\ conn' = 0
          /\ th' = Return(t, "connect", "dial_error", NilReq)
          /\ UNCHANGED << tstate, rl >>
    /\ UNCHANGED << ledgerVars, harnessVars, codecVars, cacheVars, messageID, drawn, handlers, panic >>

(***************************************************************************)
(* The peer and the network.                                               *)
(***************************************************************************)

\* The peer closes its side of an open connection: reads return io.EOF.
PeerClose(h) ==
    /\ panic = "none"
    /\ tstate[h] = "open"
    /\ tstate' = [tstate EXCEPT ![h] = "eof"]
    /\ UNCHANGED << ledgerVars, harnessVars, codecVars, cacheVars, messageID, drawn, conn, handlers, th, rl,
                    panic >>

\* The connection is reset: reads return ECONNRESET.
PeerReset(h) ==
    /\ panic = "none"
    /\ tstate[h] \in {"open", "eof"}
    /\ tstate' = [tstate EXCEPT ![h] = "reset"]
    /\ UNCHANGED << ledgerVars, harnessVars, codecVars, cacheVars, messageID, drawn, conn, handlers, th, rl,
                    panic >>

(***************************************************************************)
(* WSClient.readLoop and WSClient.reconnectLoop.                           *)
(***************************************************************************)

\* Inbound frames by their type tag: the three known tags, an unknown tag,
\* a frame without a type key and a frame whose type is not a string; a
\* result frame carries a req_id. The body of a frame with a known tag
\* either unmarshals into the message struct ("ok") or does not ("bad").
FrameTypes == {"result", "dataref_update_values", "command_update_is_active",
               "bogus", "notype", "nonstring"}

KnownTypes == {"result", "dataref_update_values", "command_update_is_active"}

Frames ==
    [type : FrameTypes \ {"result"}, id : {0}, body : {"ok"}]
        \cup [type : {"result"}, id : ReqIDs, body : {"ok"}]
        \cup [type : KnownTypes, id : {0}, body : {"bad"}]

\* The frames that decode to a message.
WellFormed == {f \in Frames : f.type \in KnownTypes /\ f.body = "ok"}

\* wsMessageStub.UnmarshalJSON inside JSON.Receive, then toMessage: the kind
\* of message a frame decodes to, or the failure. A frame without a string
\* type fails in Receive, an unknown type and a body that does not
\* unmarshal fail in toMessage.
Decode(f) ==
    CASE f.type \in {"notype", "nonstring"} -> "read_error"
      [] f.type \in KnownTypes -> IF f.body = "ok" THEN f.type ELSE "body_error"
      [] OTHER -> "unknown_type"

\* Mutant of Registered: an update is dispatched when any update handler is
\* registered.
RegisteredAnyUpdate(kind) ==
    CASE kind = "result" -> handlers.result
      [] kind = "dataref_update_values" -> handlers.dataref \/ handlers.command
      [] kind = "command_update_is_active" -> handlers.command \/ handlers.dataref
      [] OTHER -> FALSE

\* Whether the handler for a decoded message kind is registered.
Registered(kind) ==
    CASE kind = "result" -> handlers.result
      [] kind = "dataref_update_values" -> handlers.dataref
      [] kind = "command_update_is_active" -> handlers.command
      [] OTHER -> FALSE

\* Mutant of Dispatch: a frame that fails to decode ends the read loop.
DispatchStopOnError(f) ==
    LET kind == Decode(f)
    IN  IF kind \notin KnownTypes THEN Rl("exited", kind, f.id, NilReq)
        ELSE IF ~Registered(kind) THEN Rl("dropped", kind, f.id, NilReq)
        ELSE IF kind = "result" THEN Rl("atr_get", kind, f.id, NilReq)
        ELSE Rl("handler", kind, f.id, NilReq)

\* The read loop after it decoded frame f: a result goes on to applyToResult
\* when a result handler is registered; an update is handed to its handler
\* when that is registered; everything else is dropped.
Dispatch(f) ==
    LET kind == Decode(f)
    IN  IF ~Registered(kind) THEN Rl("dropped", kind, f.id, NilReq)
        ELSE IF kind = "result" THEN Rl("atr_get", kind, f.id, NilReq)
        ELSE Rl("handler", kind, f.id, NilReq)

\* readLoop, line 45: wsc.conn is loaded and passed to JSON.Receive, which
\* locks ws.rio: a nil conn is dereferenced; otherwise the call waits on
\* the connection it was given.
ReadCall(h) ==
    /\ panic = "none"
    /\ rl[h].pc = "recv"
    /\ IF conn = 0
       THEN /\ panic' = "recv"
            /\ UNCHANGED rl
       ELSE /\ rl' = [rl EXCEPT ![h] = RlBlocked(conn)]
            /\ UNCHANGED panic
    /\ UNCHANGED << ledgerVars, harnessVars, codecVars, cacheVars, messageID, drawn, conn, tstate, handlers, th >>

\* readLoop, lines 45-59 and the switch of lines 61-83: the Receive returns,
\* with frame f when its connection is open. ECONNRESET starts the
\* reconnect loop and ends the read loop; every other error (io.EOF after
\* the peer closed, the error of a connection closed locally) is logged and
\* the loop continues.
ReadRecv(h, f) ==
    /\ panic = "none"
    /\ rl[h].pc = "blocked"
    /\ LET c == rl[h].c
       IN  \/ /\ tstate[c] \in {"eof", "closed"}
              /\ rl' = [rl EXCEPT ![h] = RlRecv]
              /\ UNCHANGED << th, tstate >>
           \/ /\ tstate[c] = "reset"
              /\ rl' = [rl EXCEPT ![h] = Rl("exited", "ECONNRESET", 0, NilReq)]
              /\ th' = [th EXCEPT ![<< "reconnect", h >>] = ThIdle]
              /\ \E after \in {"reset", "eof"} : tstate' = [tstate EXCEPT ![c] = after]
           \/ /\ tstate[c] = "open"
              /\ rl' = [rl EXCEPT ![h] = Dispatch(f)]
              /\ UNCHANGED << th, tstate >>
    /\ UNCHANGED << ledgerVars, harnessVars, codecVars, cacheVars, messageID, drawn, conn, handlers, panic >>

\* Mutant of AfterGet: a result whose request is not found is not handed to
\* the handler.
AfterGetSkip(req) == IF req # NilReq THEN "atr_delete" ELSE "dropped"

\* applyToResult, line 363, and readLoop, line 65: with req not nil the
\* entry is deleted next; with req nil applyToResult returns and the
\* handler is called.
AfterGet(req) == IF req # NilReq THEN "atr_delete" ELSE "handler"

\* readLoop, line 64, applyToResult, line 362: req := rh.get(msg.ReqID).
ReadApplyGet(h) ==
    /\ panic = "none"
    /\ rl[h].pc = "atr_get"
    /\ LET req == HistGet(requests, rl[h].id)
       IN  rl' = [rl EXCEPT ![h] = Rl(AfterGet(req), rl[h].kind, rl[h].id, req)]
    /\ UNCHANGED << ledgerVars, harnessVars, codecVars, cacheVars, messageID, drawn, conn, tstate, handlers, th,
                    panic >>

\* applyToResult, lines 364-365: rh.delete(msg.ReqID); msg.Req = req; the
\* handler is called (line 65).
ReadApplyDelete(h) ==
    /\ panic = "none"
    /\ rl[h].pc = "atr_delete"
    /\ requests' = HistDelete(requests, rl[h].id)
    /\ live' = LiveRemove(live, rl[h].id)
    /\ rl' = [rl EXCEPT ![h].pc = "handler"]
    /\ UNCHANGED << harnessVars, codecVars, cacheVars, messageID, drawn, conn, tstate, handlers, th, panic >>

\* The handler returns, or the message was dropped: the next iteration.
ReadNext(h) ==
    /\ panic = "none"
    /\ rl[h].pc \in {"handler", "dropped"}
    /\ rl' = [rl EXCEPT ![h] = RlRecv]
    /\ UNCHANGED << ledgerVars, harnessVars, codecVars, cacheVars, messageID, drawn, conn, tstate, handlers, th,
                    panic >>

Next ==
    \/ \E t \in Callers : NewReq(t)
    \/ \E t \in Callers, req \in SendReqs : SendAdd(t, req)
    \/ \E t \in Callers : SendWrite(t)
    \/ \E t \in Callers : Resume(t)
    \/ \E t \in Threads : ConnectCheck(t)
    \/ \E t \in Callers : CloseCheck(t)
    \/ \E t \in Threads : CloseConn(t)
    \/ \E t \in Threads : CloseNil(t)
    \/ \E t \in Threads : ConnectDial(t)
    \/ \E h \in Handles : PeerClose(h)
    \/ \E h \in Handles : PeerReset(h)
    \/ \E h \in Handles : ReadCall(h)
    \/ \E h \in Handles, f \in Frames : ReadRecv(h, f)
    \/ \E h \in Handles : ReadApplyGet(h)
    \/ \E h \in Handles : ReadApplyDelete(h)
    \/ \E h \in Handles : ReadNext(h)

Spec == Init /\ [][Next]_vars

(***************************************************************************)
(* SpecLedger: goroutines calling the reqHistory methods.                  *)
(***************************************************************************)

\* The call completed last was an applyToResult for reqID that attached a
\* request: an applyToResult for reqID that starts now is a second call.
SecondCall(reqID) ==
    lastOp.op = "applyToResult" /\ lastOp.id = reqID /\ lastOp.ret # NilReq

InitLedger ==
    /\ requests = EmptyMap
    /\ live = EmptyMap
    /\ lt = [t \in LedgerThreads |-> LtIdle]
    /\ lastOp = NoOp
    /\ rhlock = RhFree
    /\ InitClient
    /\ handlers = NoHandlers

\* A goroutine calls rh.add(req).
LAdd(t, req) ==
    /\ lt[t].pc = "idle"
    /\ requests' = HistAdd(requests, req)
    /\ live' = LiveAdd(live, req, Dropped(requests, req, requests'))
    /\ lastOp' = [NoOp EXCEPT !.op = "add", !.id = req.ReqID, !.arg = req,
                              !.dropped = Dropped(requests, req, requests')]
    /\ UNCHANGED lt

\* A goroutine calls rh.get(reqID).
LGet(t, reqID) ==
    /\ lt[t].pc = "idle"
    /\ lastOp' = [NoOp EXCEPT !.op = "get", !.id = reqID,
                              !.ret = HistGet(requests, reqID)]
    /\ UNCHANGED << requests, live, lt >>

\* A goroutine calls rh.delete(reqID).
LDelete(t, reqID) ==
    /\ lt[t].pc = "idle"
    /\ requests' = HistDelete(requests, reqID)
    /\ live' = LiveRemove(live, reqID)
    /\ lastOp' = [NoOp EXCEPT !.op = "delete", !.id = reqID]
    /\ UNCHANGED lt

\* applyToResult(msg), first half: req := rh.get(msg.ReqID); when req is nil
\* the call returns with msg.Req left nil.
LApplyGet(t, reqID) ==
    LET req == HistGet(requests, reqID)
    IN  /\ lt[t].pc = "idle"
        /\ IF req # NilReq
           THEN /\ lt' = [lt EXCEPT ![t] = [pc |-> "atr_delete", id |-> reqID, req |-> req]]
                /\ UNCHANGED lastOp
           ELSE /\ lastOp' = [NoOp EXCEPT !.op = "applyToResult", !.id = reqID,
                                          !.again = SecondCall(reqID)]
                /\ UNCHANGED lt
        /\ UNCHANGED << requests, live >>

\* applyToResult(msg), second half: rh.delete(msg.ReqID); msg.Req = req.
LApplyDelete(t) ==
    /\ lt[t].pc = "atr_delete"
    /\ requests' = HistDelete(requests, lt[t].id)
    /\ live' = LiveRemove(live, lt[t].id)
    /\ lt' = [lt EXCEPT ![t] = LtIdle]
    /\ lastOp' = [NoOp EXCEPT !.op = "applyToResult", !.id = lt[t].id,
                              !.ret = lt[t].req]

NextLedger ==
    \/ \E t \in LedgerThreads, req \in LedgerReqs : LAdd(t, req) /\ UNCHANGED << rhlock, clientVars, codecVars, cacheVars >>
    \/ \E t \in LedgerThreads, reqID \in ReqIDs : LGet(t, reqID) /\ UNCHANGED << rhlock, clientVars, codecVars, cacheVars >>
    \/ \E t \in LedgerThreads, reqID \in ReqIDs : LDelete(t, reqID) /\ UNCHANGED << rhlock, clientVars, codecVars, cacheVars >>
    \/ \E t \in LedgerThreads, reqID \in ReqIDs : LApplyGet(t, reqID) /\ UNCHANGED << rhlock, clientVars, codecVars, cacheVars >>
    \/ \E t \in LedgerThreads : LApplyDelete(t) /\ UNCHANGED << rhlock, clientVars, codecVars, cacheVars >>

SpecLedger == InitLedger /\ [][NextLedger]_vars

(***************************************************************************)
(* Claims about the request history, checked under SpecLedger.             *)
(***************************************************************************)

\* C1: after any interleaving of add / get / delete / applyToResult calls the
\* history holds at most maxReqHistory entries (add runs under the write
\* lock, so no state lies inside an add).
C1_LedgerBounded == Cardinality(DOMAIN requests) <= maxReqHistory

\* C1 witness: an add has just trimmed the history back to its capacity.
C1_Witness ==
    /\ lastOp.op = "add"
    /\ lastOp.dropped # {}
    /\ Cardinality(DOMAIN requests) = maxReqHistory

\* C2: an add that takes the count over the capacity removes exactly
\* count - capacity entries, those removed have the lowest ids, and every
\* other entry (the added one included, if it is not among the lowest)
\* is kept with its request.
C2_EvictsLowest ==
    lastOp.op = "add" =>
        LET count == Cardinality(DOMAIN requests \cup lastOp.dropped)
            over  == IF count > maxReqHistory THEN count - maxReqHistory ELSE 0
        IN  /\ Cardinality(lastOp.dropped) = over
            /\ \A d \in lastOp.dropped : \A k \in DOMAIN requests : d < k
            /\ requests = live
            /\ over > 0 => Cardinality(DOMAIN requests) = maxReqHistory

\* C2 witness: capacity + 1 distinct ids were inserted, the new one is kept
\* and a lower one is gone.
C2_Witness ==
    /\ lastOp.op = "add"
    /\ lastOp.id \in DOMAIN requests
    /\ requests[lastOp.id] = lastOp.arg
    /\ \E d \in lastOp.dropped : d < lastOp.id

\* C3: get(id) returns the request most recently added under id when that
\* entry was neither removed nor evicted since, and nil otherwise.
C3_GetReturnsLive ==
    lastOp.op = "get" =>
        lastOp.ret = (IF lastOp.id \in DOMAIN live THEN live[lastOp.id] ELSE NilReq)

\* C3 witness: a get returned the request stored under its id.
C3_Witness ==
    /\ lastOp.op = "get"
    /\ lastOp.ret # NilReq
    /\ lastOp.ret.ReqID = lastOp.id

\* C4: applyToResult attaches the entry stored under msg.ReqID and removes
\* it, leaving every other entry alone; a call that finds nothing (as a
\* second call for the same id does) attaches nil, changes nothing and
\* returns normally.
C4_ApplyStep(t) ==
    /\ \A reqID \in ReqIDs :
         LApplyGet(t, reqID) =>
            IF reqID \in DOMAIN live /\ ~SecondCall(reqID)
            THEN lt'[t] = [pc |-> "atr_delete", id |-> reqID, req |-> live[reqID]]
            ELSE /\ lt'[t] = LtIdle
                 /\ lastOp'.op = "applyToResult" /\ lastOp'.ret = NilReq
                 /\ requests' = requests
    /\ LApplyDelete(t) =>
            /\ lastOp'.op = "applyToResult" /\ lastOp'.ret = lt[t].req
            /\ DOMAIN requests' = DOMAIN requests \ {lt[t].id}
            /\ \A k \in DOMAIN requests' : requests'[k] = requests[k]

C4_ApplyAttachesAndRemoves ==
    /\ [](lastOp.op = "applyToResult" =>
            /\ lastOp.id \notin DOMAIN requests
            /\ lastOp.ret # NilReq => lastOp.ret.ReqID = lastOp.id)
    /\ [][\A t \in LedgerThreads : C4_ApplyStep(t)]_vars

\* C4 witness: a second applyToResult for an id, right after one that
\* attached its request, found nothing.
C4_Witness ==
    /\ lastOp.op = "applyToResult"
    /\ lastOp.again
    /\ lastOp.ret = NilReq

\* C5: applyToResult is atomic: while a goroutine is between its fetch of
\* the entry and its removal of it, no other call on the history takes
\* effect (the only step is that goroutine's own removal).
C5_ApplyAtomic ==
    [][\A t \in LedgerThreads : lt[t].pc = "atr_delete" => LApplyDelete(t)]_vars

(***************************************************************************)
(* Claims about the WSClient, checked under Spec.                          *)
(***************************************************************************)

\* C6: every result a read loop receives leaves the history without an
\* entry for its req_id, whether or not a result handler is registered, and
\* a registered handler gets the result with the request that was stored.
C6_ResultRemovesEntry ==
    [][\A h \in Handles :
         (/\ rl[h].pc \notin {"handler", "dropped"}
          /\ rl'[h].pc \in {"handler", "dropped"}
          /\ rl'[h].kind = "result")
         => /\ rl'[h].id \notin DOMAIN requests'
            /\ rl'[h].pc = "handler" =>
                  rl'[h].req = (IF rl[h].pc = "atr_delete" THEN requests[rl[h].id]
                                ELSE NilReq)]_vars

\* C7: when the result handler is registered and applyToResult finds no
\* entry for the result's req_id, the handler is called once with the
\* request absent, the history is unchanged, nothing panics and the loop
\* goes on to the next Receive.
C7_UnmatchedResultHandled ==
    [][\A h \in Handles :
         /\ (rl[h].pc = "atr_get" /\ rl[h].id \notin DOMAIN requests /\ rl'[h] # rl[h])
            => /\ rl'[h] = Rl("handler", "result", rl[h].id, NilReq)
               /\ requests' = requests
               /\ panic' = "none"
         /\ (rl[h].pc = "handler" /\ rl'[h] # rl[h])
            => /\ rl'[h] = RlRecv
               /\ requests' = requests
               /\ panic' = "none"]_vars

\* C7 witness: the handler runs for a result whose request is absent while
\* the history holds other requests.
C7_Witness ==
    \E h \in Handles :
        /\ rl[h].pc = "handler" /\ rl[h].kind = "result" /\ rl[h].req = NilReq
        /\ requests # EmptyMap
        /\ rl[h].id \notin DOMAIN requests

C9_SendNotConnected ==
    [][\A t \in Callers :
         (/\ th[t].pc = "send_write"
          /\ conn = 0 \/ tstate[conn] # "open"
          /\ th'[t] # th[t] \/ panic' # panic)
         => /\ panic' = "none"
            /\ th'[t].pc = "returned"
            /\ th'[t].ret = "NotConnected"
            /\ th[t].req.ReqID \in DOMAIN requests']_vars

\* C10: a Send whose write fails returns the write error and leaves the
\* history as it is; an entry leaves the history only through applyToResult
\* for a result with its id or through the trim of an add on a full history.
C10_FailedSendKeepsEntry ==
    [][/\ \A t \in Callers :
            (th[t].pc = "send_write" /\ th'[t].pc = "returned")
            => /\ requests' = requests
               /\ (conn # 0 /\ tstate[conn] \in {"closed", "reset"})
                     => th'[t].ret = "write_error"
       /\ \A k \in DOMAIN requests \ DOMAIN requests' :
            \/ \E h \in Handles :
                 rl[h].pc = "atr_delete" /\ rl[h].id = k /\ rl'[h].pc = "handler"
            \/ \E t \in Callers :
                 /\ th[t].pc = "idle" /\ th'[t].pc = "send_write"
                 /\ Cardinality(DOMAIN requests) = maxReqHistory]_vars

\* C10 witness: Send returned a write error and its request is in the
\* history.
C10_Witness ==
    \E t \in Callers :
        /\ th[t].pc = "returned" /\ th[t].op = "send" /\ th[t].ret = "write_error"
        /\ th[t].req.ReqID \in DOMAIN requests
        /\ requests[th[t].req.ReqID] = th[t].req

(***************************************************************************)
(* SpecConn: the connection lifecycle by itself. A caller goroutine calls  *)
(* Connect and Close while the read loops and the reconnect loops run; no  *)
(* request is sent and no handler is registered, so that enough            *)
(* connections can be dialled for a reconnect loop to race the caller.     *)
(***************************************************************************)

\* The connections websocket.Dial can hand out in a run of SpecConn.
ConnHandles == 1..MaxDials

ConnThreads == Callers \cup ({"reconnect"} \X ConnHandles)

\* The frame the peer pushes in SpecConn: a dataref update.
ConnFrames == {f \in Frames : f.type = "dataref_update_values" /\ f.body = "ok"}

InitConn ==
    /\ requests = EmptyMap
    /\ live = EmptyMap
    /\ lt = [t \in LedgerThreads |-> LtIdle]
    /\ lastOp = NoOp
    /\ rhlock = RhFree
    /\ messageID = 0
    /\ drawn = << >>
    /\ conn = 0
    /\ tstate = [h \in ConnHandles |-> "none"]
    /\ th = [t \in ConnThreads |-> IF t \in Callers THEN ThIdle ELSE ThNone]
    /\ rl = [h \in ConnHandles |-> RlNone]
    /\ panic = "none"
    /\ handlers = NoHandlers
    /\ InitCache
    /\ InitCodec

NextConn ==
    \/ \E t \in Callers : Resume(t)
    \/ \E t \in ConnThreads : ConnectCheck(t)
    \/ \E t \in Callers : CloseCheck(t)
    \/ \E t \in ConnThreads : CloseConn(t)
    \/ \E t \in ConnThreads : CloseNil(t)
    \/ \E t \in ConnThreads : ConnectDial(t)
    \/ \E h \in ConnHandles : PeerClose(h)
    \/ \E h \in ConnHandles : PeerReset(h)
    \/ \E h \in ConnHandles : ReadCall(h)
    \/ \E h \in ConnHandles, f \in ConnFrames : ReadRecv(h, f)
    \/ \E h \in ConnHandles : ReadNext(h)

SpecConn == InitConn /\ [][NextConn]_vars

(***************************************************************************)
(* Claims about the connection lifecycle.                                  *)
(***************************************************************************)

\* C11 (under Spec): no interleaving of Connect, Close, Send, read-loop
\* steps and reconnect-loop steps ends the process: no goroutine panics.
C11_NoTermination == panic = "none"

\* The transports that were opened and neither closed locally nor lost.
LiveTransports == {h \in DOMAIN tstate : tstate[h] = "open"}

\* C12 (under SpecConn): at most one transport is live at any time, also
\* while the caller's Connect runs concurrently with a reconnect loop's.
C12_OneLiveTransport == Cardinality(LiveTransports) <= 1

\* C13 (under SpecConn): Close is idempotent. A Close that finds no handle
\* in conn changes nothing and returns normally, and whenever a Close of
\* the caller returns, be it the first or a repeated one, conn is nil.
C13_CloseIdempotent ==
    [][\A t \in Callers :
         /\ (th[t].pc = "idle" /\ th'[t].op = "close" /\ conn = 0)
            => /\ th'[t] = Th("returned", "close", "nil", NilReq)
               /\ conn' = 0
               /\ tstate' = tstate
               /\ rl' = rl
               /\ requests' = requests
               /\ panic' = "none"
         /\ (th[t].pc # "returned" /\ th'[t].pc = "returned" /\ th'[t].op = "close")
            => /\ conn' = 0
               /\ th'[t].ret = "nil"
               /\ panic' = "none"]_vars

\* C13 witness: a Close has returned although no transport was ever opened:
\* it found conn nil, and conn is nil afterwards.
C13_Witness ==
    \E t \in Callers :
        /\ th[t] = Th("returned", "close", "nil", NilReq)
        /\ conn = 0
        /\ \A h \in DOMAIN tstate : tstate[h] = "none"
        /\ panic = "none"

\* The read loops that were started and have not returned.
RunningReadLoops == {h \in DOMAIN rl : rl[h].pc \notin {"none", "exited"}}

\* C14 (under SpecConn): at most one read loop is running, and a read loop
\* only ever receives from the connection whose Connect started it.
C14_OneBoundReadLoop ==
    /\ Cardinality(RunningReadLoops) <= 1
    /\ \A h \in DOMAIN rl : rl[h].pc = "blocked" => rl[h].c = h

\* C15 (under SpecConn): when the Receive of a read loop fails because its
\* connection was closed by Close, the read loop returns instead of going
\* round its loop again.
C15_CloseEndsReadLoop ==
    [][\A h \in DOMAIN rl :
         (rl[h].pc = "blocked" /\ tstate[rl[h].c] = "closed" /\ rl'[h] # rl[h])
         => rl'[h].pc = "exited"]_vars

\* C16 (under SpecConn): a Receive that fails because the peer closed the
\* connection or because it was reset ends the read loop and starts the
\* reconnect loop; a Receive that fails for another reason leaves the read
\* loop running and starts no reconnect loop.
C16_ReadFailureHandling ==
    [][\A h \in DOMAIN rl :
         (rl[h].pc = "blocked" /\ rl'[h] # rl[h])
         => /\ tstate[rl[h].c] \in {"eof", "reset"}
               => /\ rl'[h].pc = "exited"
                  /\ th[<< "reconnect", h >>] = ThNone
                  /\ th'[<< "reconnect", h >>] = ThIdle
            /\ tstate[rl[h].c] = "closed"
               => /\ rl'[h].pc = "recv"
                  /\ th' = th]_vars

\* The reconnect loops that were started and have not returned.
RunningReconnectLoops ==
    {t \in DOMAIN th : t[1] = "reconnect" /\ th[t].pc \notin {"none", "done"}}

\* C17 (under SpecConn): at most one reconnect loop exists at any time.
C17_OneReconnectLoop == Cardinality(RunningReconnectLoops) <= 1

\* C20 (under SpecConn): Closed is terminal. From the return of the caller's
\* Close until the caller makes its next call, conn does not come to hold a
\* handle: no background goroutine connects a closed manager.
C20_ClosedIsTerminal ==
    [][\A t \in Callers :
         (th[t] = Th("returned", "close", "nil", NilReq) /\ th'[t] = th[t])
         => conn' = 0]_vars

\* C18 (under SpecConn): a reconnect loop whose Connect fails is back at the
\* top of its loop, where the next Connect is enabled, however many
\* attempts failed before; the failure reaches no caller and stops nothing.
\* A reconnect loop whose Connect succeeds returns, and that Connect has
\* started exactly one read loop, the one of the new connection. A
\* reconnect loop that returned stays so.
C18_ReconnectStep(t) ==
    /\ (th[t].pc = "k_dial" /\ th'[t] # th[t] /\ conn' = 0)
       => /\ th'[t] = ThIdle
          /\ \A u \in DOMAIN th \ {t} : th'[u] = th[u]
          /\ rl' = rl
          /\ tstate' = tstate
          /\ panic' = "none"
    /\ (th[t].pc = "k_dial" /\ th'[t] # th[t] /\ conn' # 0)
       => /\ th'[t].pc = "done"
          /\ tstate[conn'] = "none" /\ tstate'[conn'] = "open"
          /\ rl[conn'] = RlNone /\ rl'[conn'] = RlRecv
          /\ \A g \in DOMAIN rl \ {conn'} : rl'[g] = rl[g]
          /\ panic' = "none"
    /\ th[t].pc = "done" => th'[t] = th[t]

C18_ReconnectRetries ==
    /\ [](\A t \in DOMAIN th :
            (t[1] = "reconnect" /\ th[t] = ThIdle /\ panic = "none")
            => ENABLED ConnectCheck(t))
    /\ [][\A t \in DOMAIN th : t[1] = "reconnect" => C18_ReconnectStep(t)]_vars

\* C18 witness: a reconnect loop has returned after its Connect succeeded;
\* the connection it opened is the current one and its read loop runs.
C18_Witness ==
    \E t \in DOMAIN th :
        /\ t[1] = "reconnect" /\ th[t].pc = "done"
        /\ conn # 0 /\ conn > t[2]
        /\ tstate[conn] = "open"
        /\ rl[conn].pc \in {"recv", "blocked"}
        /\ RunningReadLoops = {conn}

DecodeFailures == {"read_error", "unknown_type", "body_error"}

\* C21 (under Spec): a frame that fails to decode (no type key, a type that
\* is not a string, an unknown type, a body that does not unmarshal) is
\* dropped: no handler runs for it, the connection stays as it is, no
\* reconnect loop starts and nothing else changes; the loop then goes to
\* its next Receive, and on an open connection every well-formed frame can
\* still be received and dispatched.
C21_DecodeFailureDropped ==
    /\ [][\A h \in Handles :
            /\ (rl[h].pc = "blocked" /\ rl'[h] # rl[h] /\ rl'[h].kind \in DecodeFailures)
               => /\ rl'[h].pc = "dropped"
                  /\ tstate' = tstate /\ conn' = conn
                  /\ th' = th
                  /\ requests' = requests
                  /\ panic' = "none"
            /\ (rl[h].pc = "dropped" /\ rl'[h] # rl[h]) => rl'[h] = RlRecv]_vars
    /\ [](\A h \in Handles :
            /\ (rl[h].pc = "recv" /\ conn # 0 /\ panic = "none") => ENABLED ReadCall(h)
            /\ (rl[h].pc = "blocked" /\ tstate[rl[h].c] = "open" /\ panic = "none")
               => \A f \in WellFormed : ENABLED ReadRecv(h, f))

\* C21 witness: a frame whose body does not unmarshal has been dropped and
\* the connection is still open.
C21_Witness ==
    \E h \in Handles :
        /\ rl[h].pc = "dropped" /\ rl[h].kind = "body_error"
        /\ conn = h /\ tstate[h] = "open"
        /\ handlers = AllHandlers
        /\ panic = "none"

(***************************************************************************)
(* SpecCodec: the codec by itself. A frame is drawn, wsMessageStub and     *)
(* toMessage decode it.                                                    *)
(***************************************************************************)

\* The characters of a key; a key is a sequence of them ("x" stands for
\* every character that is not a decimal digit).
Digits == {"0", "1"}
KeyChars == Digits \cup {"x"}

KeyStrings == UNION {[1..n -> KeyChars] : n \in 0..MaxKeyLen}

DigitVal(c) == IF c = "1" THEN 1 ELSE 0

\* The value of a sequence of digits read in base 10.
RECURSIVE DecimalValue(_)
DecimalValue(k) ==
    IF Len(k) = 0 THEN 0
    ELSE 10 * DecimalValue(SubSeq(k, 1, Len(k) - 1)) + DigitVal(k[Len(k)])

\* strconv.ParseUint(k, 10, 64): a syntax error for the empty string and for
\* a string with a character that is not a digit (a sign included); leading
\* zeros are accepted. MaxKeyLen keeps the value far below 2^64.
ParseUint(k) ==
    IF Len(k) = 0 \/ \E i \in 1..Len(k) : k[i] \notin Digits
    THEN [ok |-> FALSE, val |-> 0]
    ELSE [ok |-> TRUE, val |-> DecimalValue(k)]

\* The values in the data object: JSON true, false and a string.
WireVals == {"true", "false", "str"}

\* The data objects: a set of keys, each with a value.
\* The sets of at most MaxKeys keys.
KeySets == UNION {{{s[i] : i \in 1..n} : s \in [1..n -> KeyStrings]} : n \in 0..MaxKeys}

WireMaps == UNION {[K -> WireVals] : K \in KeySets}

\* The type tags of the frames given to the codec: those of FrameTypes and
\* the type of an outbound request.
CodecTypes == FrameTypes \cup {"dataref_set_values"}

RawFrames == [type : CodecTypes, data : WireMaps]

\* wsMessageStub.UnmarshalJSON: the error, or the Type it stored.
UnmarshalStub(f) ==
    CASE f.type = "notype"    -> [err |-> "JSON data does not contain type key", Type |-> ""]
      [] f.type = "nonstring" -> [err |-> "JSON type value is not string", Type |-> ""]
      [] OTHER                -> [err |-> "nil", Type |-> f.type]

\* Mutant of ToMessageVariant: the type of an outbound request is taken for
\* the update of the same entity.
ToMessageVariantLoose(Type) ==
    CASE Type = "result" -> "WSMessageResult"
      [] Type \in {"dataref_update_values", "dataref_set_values"} -> "WSMessageDatarefUpdate"
      [] Type = "command_update_is_active" -> "WSMessageCommandUpdate"
      [] OTHER -> "none"

\* toMessage, lines 199-208: the struct chosen for a Type, "none" in the
\* default case.
ToMessageVariant(Type) ==
    CASE Type = "result" -> "WSMessageResult"
      [] Type = "dataref_update_values" -> "WSMessageDatarefUpdate"
      [] Type = "command_update_is_active" -> "WSMessageCommandUpdate"
      [] OTHER -> "none"

\* The ids the keys of a data object denote.
KeyIDs(data) == {ParseUint(k).val : k \in DOMAIN data}

\* The maps the range loop over dataMap can leave in valMap when every key
\* parses: one entry per id; keys that denote the same id write the same
\* entry and the order of the iteration, which is not specified, decides
\* which value stays.
RangeResults(data) ==
    {m \in [KeyIDs(data) -> WireVals] :
        \A id \in KeyIDs(data) :
            \E k \in DOMAIN data : ParseUint(k).val = id /\ data[k] = m[id]}

\* Mutant of UnmarshalValuesMap: a key that does not parse is skipped.
UnmarshalValuesMapSkip(data) ==
    LET good == [k \in {k \in DOMAIN data : ParseUint(k).ok} |-> data[k]]
    IN  {[err |-> "nil", data |-> m] : m \in RangeResults(good)}

\* WSDatarefValuesMap.UnmarshalJSON: the outcomes for a data object. A key
\* that ParseUint rejects makes the call return the error.
UnmarshalValuesMap(data) ==
    IF \E k \in DOMAIN data : ~ParseUint(k).ok
    THEN {[err |-> "body", data |-> << >>]}
    ELSE {[err |-> "nil", data |-> m] : m \in RangeResults(data)}

\* WSCommandStatusMap.UnmarshalJSON: as for datarefs, after the data object
\* was unmarshalled into a map[string]bool, which fails for a value that is
\* not a boolean.
UnmarshalStatusMap(data) ==
    IF \E k \in DOMAIN data : data[k] \notin {"true", "false"}
    THEN {[err |-> "body", data |-> << >>]}
    ELSE UnmarshalValuesMap(data)

\* toMessage after UnmarshalJSON: the outcomes for a frame. On an error no
\* message is returned.
ToMessage(f) ==
    LET stub == UnmarshalStub(f)
        variant == ToMessageVariant(stub.Type)
    IN  IF stub.err # "nil"
        THEN {[err |-> stub.err, variant |-> "none", data |-> << >>]}
        ELSE IF variant = "none"
        THEN {[err |-> "unknown message type", variant |-> "none", data |-> << >>]}
        ELSE IF variant = "WSMessageResult"
        THEN {[err |-> "nil", variant |-> variant, data |-> << >>]}
        ELSE LET body == IF variant = "WSMessageDatarefUpdate"
                         THEN UnmarshalValuesMap(f.data)
                         ELSE UnmarshalStatusMap(f.data)
             IN  {[err |-> b.err,
                   variant |-> IF b.err = "nil" THEN variant ELSE "none",
                   data |-> b.data] : b \in body}

InitCodecFrame ==
    /\ requests = EmptyMap
    /\ live = EmptyMap
    /\ lt = [t \in LedgerThreads |-> LtIdle]
    /\ lastOp = NoOp
    /\ rhlock = RhFree
    /\ messageID = 0
    /\ drawn = << >>
    /\ conn = 0
    /\ tstate = [h \in Handles |-> "none"]
    /\ th = [t \in Threads |-> IF t \in Callers THEN ThIdle ELSE ThNone]
    /\ rl = [h \in Handles |-> RlNone]
    /\ panic = "none"
    /\ handlers = NoHandlers
    /\ InitCache
    /\ cframe \in RawFrames
    /\ cout = NoOut

\* The frame is decoded.
CodecDecode ==
    /\ cout = NoOut
    /\ cout' \in ToMessage(cframe)
    /\ UNCHANGED << ledgerVars, harnessVars, clientVars, cacheVars, cframe >>

NextCodec == CodecDecode

SpecCodec == InitCodecFrame /\ [][NextCodec]_vars

EntityUpdate ==
    \/ cframe.type = "dataref_update_values"
    \/ /\ cframe.type = "command_update_is_active"
       /\ \A k \in DOMAIN cframe.data : cframe.data[k] \in {"true", "false"}

AllKeysParse == \A k \in DOMAIN cframe.data : ParseUint(k).ok

\* C23 as stated (under SpecCodec): a decoded entity update has exactly one
\* entry per key of the data object, under the integer the key denotes and
\* with the value of that key; a key that is not a decimal unsigned integer
\* fails the whole frame and no message is returned.
C23_OneEntryPerKey ==
    (cout # NoOut /\ EntityUpdate) =>
        IF AllKeysParse
        THEN /\ cout.err = "nil"
             /\ Cardinality(DOMAIN cout.data) = Cardinality(DOMAIN cframe.data)
             /\ \A k \in DOMAIN cframe.data :
                    /\ ParseUint(k).val \in DOMAIN cout.data
                    /\ cout.data[ParseUint(k).val] = cframe.data[k]
        ELSE cout.err = "body" /\ cout.variant = "none" /\ cout.data = << >>

\* C23 amended (under SpecCodec): a decoded entity update has exactly one
\* entry per integer denoted by a key of the data object; the entry has the
\* value of a key that denotes this integer, so a key that alone denotes its
\* integer gives its own value, and keys that denote the same integer
\* ("1" and "01") give one entry between them. A key that is not a decimal
\* unsigned integer fails the whole frame and no message is returned.
C23_OneEntryPerID ==
    (cout # NoOut /\ EntityUpdate) =>
        IF AllKeysParse
        THEN /\ cout.err = "nil"
             /\ DOMAIN cout.data = KeyIDs(cframe.data)
             /\ \A id \in DOMAIN cout.data :
                    \E k \in DOMAIN cframe.data :
                        ParseUint(k).val = id /\ cout.data[id] = cframe.data[k]
        ELSE cout.err = "body" /\ cout.variant = "none" /\ cout.data = << >>

\* C23 witness: a command update whose keys "1" and "01" carry different
\* values was decoded into the single entry 1.
C23_Witness ==
    /\ cframe.type = "command_update_is_active"
    /\ DOMAIN cframe.data = {<< "1" >>, << "0", "1" >>}
    /\ cframe.data[<< "1" >>] # cframe.data[<< "0", "1" >>]
    /\ cout.err = "nil"
    /\ DOMAIN cout.data = {1}

(***************************************************************************)
(* SpecRead: one connection and its read loop, under every combination of  *)
(* registered handlers. The connection is dialled once and stays open.     *)
(***************************************************************************)

\* The ClientConfig's handlers, each one set or nil.
AnyHandlers == [result : BOOLEAN, dataref : BOOLEAN, command : BOOLEAN]

InitRead ==
    /\ requests = EmptyMap
    /\ live = EmptyMap
    /\ lt = [t \in LedgerThreads |-> LtIdle]
    /\ lastOp = NoOp
    /\ rhlock = RhFree
    /\ InitClient
    /\ handlers \in AnyHandlers

NextRead ==
    \/ \E t \in Callers : NewReq(t)
    \/ \E t \in Callers, req \in SendReqs : SendAdd(t, req)
    \/ \E t \in Callers : SendWrite(t)
    \/ \E t \in Callers : Resume(t)
    \/ \E t \in Callers : ConnectCheck(t)
    \/ \E t \in Callers : ConnectDial(t)
    \/ \E h \in Handles : ReadCall(h)
    \/ \E h \in Handles, f \in Frames : ReadRecv(h, f)
    \/ \E h \in Handles : ReadApplyGet(h)
    \/ \E h \in Handles : ReadApplyDelete(h)
    \/ \E h \in Handles : ReadNext(h)

SpecRead == InitRead /\ [][NextRead]_vars

\* The handler field of the WSClient that the switch of readLoop calls for
\* a message of a kind.
HandlerFor(kind) ==
    CASE kind = "result" -> "result"
      [] kind = "dataref_update_values" -> "dataref"
      [] kind = "command_update_is_active" -> "command"
      [] OTHER -> "none"

\* C24 (under SpecRead): the read loop has one message at a time; a handler
\* runs only for a message that decoded, it is the handler of the kind of
\* this message and it is registered; the call starts once per message, from
\* the receive or from applyToResult of this message, and when it ends the
\* loop receives the next frame; a decoded message whose handler is not
\* registered is dropped without a call and the loop receives the next
\* frame.
C24_Step(h) ==
    /\ (rl[h].pc # "handler" /\ rl'[h].pc = "handler") =>
          /\ rl'[h].kind \in KnownTypes
          /\ HandlerFor(rl'[h].kind) \in DOMAIN handlers
          /\ handlers[HandlerFor(rl'[h].kind)]
          /\ \/ rl[h].pc = "blocked" /\ rl'[h].kind # "result"
             \/ /\ rl[h].pc \in {"atr_get", "atr_delete"}
                /\ rl'[h].kind = "result"
                /\ rl'[h].id = rl[h].id
    /\ (rl[h].pc = "handler" /\ rl'[h] # rl[h]) => rl'[h] = RlRecv
    /\ (rl[h].pc = "blocked" /\ rl'[h].kind \in KnownTypes
          /\ ~handlers[HandlerFor(rl'[h].kind)]) => rl'[h].pc = "dropped"
    /\ (rl[h].pc = "dropped" /\ rl'[h] # rl[h]) => rl'[h] = RlRecv

C24_OneRegisteredHandler == [][\A h \in Handles : C24_Step(h)]_vars

\* C24 witness: with only the command handler registered, a dataref update
\* was decoded and dropped without a call.
C24_Witness ==
    /\ handlers = [result |-> FALSE, dataref |-> FALSE, command |-> TRUE]
    /\ \E h \in Handles :
          /\ rl[h].pc = "dropped"
          /\ rl[h].kind = "dataref_update_values"

(***************************************************************************)
(* SpecCache: NewClient, then one goroutine that reloads the cache of      *)
(* commands (of datarefs: the code is the same, with its own maps and its  *)
(* own lock) and one goroutine that reads it: lookups, requests built from *)
(* a name, and the read loop populating an update before its handler.      *)
(***************************************************************************)

EntIDs == 1..MaxEntID
Names == {"a", "b"}

\* The ids a caller or the peer can name: those of the listings and one that
\* no listing has.
AskIDs == 1..(MaxEntID + 1)

\* Command (Dataref): the id and the name.
Entities == [ID : EntIDs, Name : Names]

\* The listings GetCommands can return: neither ids nor names need be
\* unique.
Listings == UNION {[1..n -> Entities] : n \in 0..MaxListing}

\* ClientConfig values: nil, or a URL (empty, good, unparsable) and the
\* handlers.
NilConfig == [nil |-> TRUE, URL |-> "", handlers |-> NoHandlers]
Configs ==
    {NilConfig} \cup [nil : {FALSE}, URL : {"", "u", "bad"}, handlers : HandlerConfigs]

\* Before NewClient was called.
NoClient == [st |-> "none", url |-> "", cfg |-> "none"]

InitNewClient ==
    /\ requests = EmptyMap
    /\ live = EmptyMap
    /\ lt = [t \in LedgerThreads |-> LtIdle]
    /\ lastOp = NoOp
    /\ rhlock = RhFree
    /\ messageID = 0
    /\ drawn = << >>
    /\ conn = 0
    /\ tstate = [h \in Handles |-> "none"]
    /\ th = [t \in Threads |-> IF t \in Callers THEN ThIdle ELSE ThNone]
    /\ rl = [h \in Handles |-> RlNone]
    /\ panic = "none"
    /\ handlers = NoHandlers
    /\ InitCodec
    /\ byID = EmptyMap
    /\ byName = EmptyMap
    /\ wlocked = FALSE
    /\ ld = LdIdle
    /\ rd = RdIdle
    /\ client = NoClient
    /\ drefs = DrefsIdle

\* NewClient, lines 257-268: the URL the client uses.
ApiURL(config) == IF ~config.nil /\ config.URL # "" THEN config.URL ELSE "default"

\* NewClient(config). The URL is parsed first and an error returned for a
\* bad one; the WSClient literal of lines 293-300 reads three fields of
\* config without a nil test, which for a nil config is a nil pointer
\* dereference.
NewClient(config) ==
    /\ client = NoClient
    /\ LET kind == IF config.nil THEN "nil" ELSE "set"
       IN  IF ApiURL(config) = "bad"
           THEN /\ client' = [st |-> "error", url |-> "", cfg |-> kind]
                /\ UNCHANGED << handlers, panic >>
           ELSE IF config.nil
           THEN /\ client' = [st |-> "panic", url |-> "", cfg |-> kind]
                /\ panic' = "NewClient"
                /\ UNCHANGED handlers
           ELSE /\ client' = [st |-> "ready", url |-> ApiURL(config), cfg |-> kind]
                /\ handlers' = config.handlers
                /\ UNCHANGED panic
    /\ UNCHANGED << ledgerVars, harnessVars, codecVars, messageID, drawn, conn, tstate, th, rl,
                    byID, byName, wlocked, ld, rd, drefs >>

\* A method of the client can be called.
Usable == client.st = "ready" /\ panic = "none"

\* m[k] = e.
Put(m, k, e) == [x \in DOMAIN m \cup {k} |-> IF x = k THEN e ELSE m[x]]

\* Mutant of Made: the maps are not replaced.
MadeKeep(m) == m

\* loadCommands, lines 209-210: make(commandsIDMap), make(commandsNameMap).
Made(m) == EmptyMap

\* Mutant of CanRead: a lookup does not wait for the lock.
CanReadAlways(locked) == TRUE

\* commandsLock.RLock() returns only while the lock is not held for
\* writing.
CanRead(locked) == ~locked

\* loadCommands, line 201: commandsLock.Lock(). The lookups hold the read
\* lock for one step only, so none is held here.
LoadLock ==
    /\ Usable
    /\ ld.pc = "idle"
    /\ ~wlocked
    /\ wlocked' = TRUE
    /\ ld' = [ld EXCEPT !.pc = "fetch"]
    /\ UNCHANGED << ledgerVars, harnessVars, codecVars, clientVars, byID, byName, rd, client, drefs >>

\* Mutant of LoadFetchFail: the maps are made anew before the error is
\* looked at.
LoadFetchFailCleared ==
    /\ Usable
    /\ ld.pc = "fetch"
    /\ ld' = [ld EXCEPT !.pc = "idle", !.err = "http"]
    /\ wlocked' = FALSE
    /\ byID' = EmptyMap
    /\ byName' = EmptyMap
    /\ UNCHANGED << ledgerVars, harnessVars, codecVars, clientVars, rd, client, drefs >>

\* loadCommands, lines 204-207: GetCommands failed; the deferred Unlock runs
\* and the maps are as they were.
LoadFetchFail ==
    /\ Usable
    /\ ld.pc = "fetch"
    /\ ld' = [ld EXCEPT !.pc = "idle", !.err = "http"]
    /\ wlocked' = FALSE
    /\ UNCHANGED << ledgerVars, harnessVars, codecVars, clientVars, byID, byName, rd, client, drefs >>

\* loadCommands, lines 204-210: GetCommands returned listing L and both
\* maps are made anew.
LoadFetch(L) ==
    /\ Usable
    /\ ld.pc = "fetch"
    /\ byID' = Made(byID)
    /\ byName' = Made(byName)
    /\ ld' = [pc |-> "fill", listing |-> L, i |-> 1, err |-> "none"]
    /\ UNCHANGED << ledgerVars, harnessVars, codecVars, clientVars, wlocked, rd, client, drefs >>

\* loadCommands, lines 212-215: one iteration of the loop over the listing.
LoadFill ==
    /\ Usable
    /\ ld.pc = "fill"
    /\ ld.i <= Len(ld.listing)
    /\ LET command == ld.listing[ld.i]
       IN  /\ byID' = Put(byID, command.ID, command)
           /\ byName' = Put(byName, command.Name, command)
    /\ ld' = [ld EXCEPT !.i = ld.i + 1]
    /\ UNCHANGED << ledgerVars, harnessVars, codecVars, clientVars, wlocked, rd, client, drefs >>

\* loadCommands, line 217: return nil, and the deferred Unlock.
LoadReturn ==
    /\ Usable
    /\ ld.pc = "fill"
    /\ ld.i > Len(ld.listing)
    /\ ld' = [ld EXCEPT !.pc = "idle", !.err = "nil"]
    /\ wlocked' = FALSE
    /\ UNCHANGED << ledgerVars, harnessVars, codecVars, clientVars, byID, byName, rd, client, drefs >>

\* GetCommandByID and GetCommandByName under the read lock; GetCommandID and
\* GetCommandName on their results.
GetByID(id) == IF id \in DOMAIN byID THEN byID[id] ELSE NilEnt
GetByName(name) == IF name \in DOMAIN byName THEN byName[name] ELSE NilEnt
GetID(name) == GetByName(name).ID
GetName(id) == GetByID(id).Name

\* The reading goroutine returned from a call.
Returned(op, name, id, ret, http, err) ==
    [RdIdle EXCEPT !.pc = "returned", !.op = op, !.name = name, !.id = id, !.ret = ret,
                   !.http = http, !.err = err]

\* GetCommandByID(id).
RdGetByID(id) ==
    /\ Usable
    /\ rd.pc = "idle"
    /\ CanRead(wlocked)
    /\ rd' = Returned("GetByID", "", id, GetByID(id), FALSE, "none")
    /\ UNCHANGED << ledgerVars, harnessVars, codecVars, clientVars, byID, byName, wlocked, ld, client, drefs >>

\* GetCommandByName(name).
RdGetByName(name) ==
    /\ Usable
    /\ rd.pc = "idle"
    /\ CanRead(wlocked)
    /\ rd' = Returned("GetByName", name, 0, GetByName(name), FALSE, "none")
    /\ UNCHANGED << ledgerVars, harnessVars, codecVars, clientVars, byID, byName, wlocked, ld, client, drefs >>

\* WSClient.NewCommand, NewDataref, NewDatarefValue: the request value is
\* built with whatever id GetCommandID (GetDatarefID) returns; none of them
\* returns an error.
RdNewDataref(name) ==
    /\ Usable
    /\ rd.pc = "idle"
    /\ CanRead(wlocked)
    /\ rd' = Returned("NewDataref", name, GetID(name), NilEnt, FALSE, "nil")
    /\ UNCHANGED << ledgerVars, harnessVars, codecVars, clientVars, byID, byName, wlocked, ld, client, drefs >>

\* Mutant of NoSuch: the id is not tested.
NoSuchNever(drefID) == FALSE

\* SetDatarefValue, line 247: drefID == 0.
NoSuch(drefID) == drefID = 0

\* RESTClient.SetDatarefValue (SetDatarefElementValue, GetDatarefValue,
\* ActivateCommand): the id is looked up, "no such dataref" is returned for
\* id 0 before makeRequest; otherwise the HTTP request is made and
\* succeeds or fails.
RdSetDatarefValue(name) ==
    /\ Usable
    /\ rd.pc = "idle"
    /\ CanRead(wlocked)
    /\ LET drefID == GetID(name)
       IN  IF NoSuch(drefID)
           THEN rd' = Returned("SetDatarefValue", name, drefID, NilEnt, FALSE, "no such dataref")
           ELSE \E err \in {"nil", "http"} :
                    rd' = Returned("SetDatarefValue", name, drefID, NilEnt, TRUE, err)
    /\ UNCHANGED << ledgerVars, harnessVars, codecVars, clientVars, byID, byName, wlocked, ld, client, drefs >>

\* readLoop, lines 67-72 (75-80): an update with entries for ids was decoded
\* and its handler is registered; populateDatarefs is called.
RdUpdate(ids) ==
    /\ Usable
    /\ rd.pc = "idle"
    /\ Registered("dataref_update_values")
    /\ rd' = [RdIdle EXCEPT !.pc = "populate", !.op = "update", !.ids = ids, !.todo = ids]
    /\ UNCHANGED << ledgerVars, harnessVars, codecVars, clientVars, byID, byName, wlocked, ld, client, drefs >>

\* Mutant of PopulateRef: the entry is left as the codec made it.
PopulateRefNone(id) == NilEnt

\* populateDatarefs, line 258: wsc.client.GetDatarefByID(drefID).
PopulateRef(id) == GetByID(id)

\* populateDatarefs, lines 257-259: one iteration of the loop over the
\* entries, in the order of the map iteration; each lookup takes the read
\* lock by itself.
RdPopulate(id) ==
    /\ Usable
    /\ rd.pc = "populate"
    /\ id \in rd.todo
    /\ CanRead(wlocked)
    /\ rd' = [rd EXCEPT !.todo = rd.todo \ {id}, !.refs = Put(rd.refs, id, PopulateRef(id))]
    /\ UNCHANGED << ledgerVars, harnessVars, codecVars, clientVars, byID, byName, wlocked, ld, client, drefs >>

\* readLoop, line 72: the loop of populateDatarefs ended and the handler is
\* called with the message.
RdHandler ==
    /\ Usable
    /\ rd.pc = "populate"
    /\ rd.todo = {}
    /\ rd' = [rd EXCEPT !.pc = "handler"]
    /\ UNCHANGED << ledgerVars, harnessVars, codecVars, clientVars, byID, byName, wlocked, ld, client, drefs >>

\* The caller, or the handler, is done.
RdDone ==
    /\ Usable
    /\ rd.pc \in {"returned", "handler"}
    /\ rd' = RdIdle
    /\ UNCHANGED << ledgerVars, harnessVars, codecVars, clientVars, byID, byName, wlocked, ld, client, drefs >>

NextCache ==
    \/ \E config \in Configs : NewClient(config)
    \/ LoadLock
    \/ LoadFetchFail
    \/ \E L \in Listings : LoadFetch(L)
    \/ LoadFill
    \/ LoadReturn
    \/ \E id \in AskIDs : RdGetByID(id)
    \/ \E name \in Names : RdGetByName(name)
    \/ \E name \in Names : RdNewDataref(name)
    \/ \E name \in Names : RdSetDatarefValue(name)
    \/ \E ids \in SUBSET AskIDs : RdUpdate(ids)
    \/ \E id \in AskIDs : RdPopulate(id)
    \/ RdHandler
    \/ RdDone

SpecCache == InitNewClient /\ [][NextCache]_vars

(***************************************************************************)
(* Claims about the cache and NewClient                                    *)
(***************************************************************************)

\* C25 (under SpecCache): before the handler of an update is called every
\* entry of the message was given, by a lookup of its own, the entity the
\* cache held under the entry's id at that lookup, and the nil entity when
\* the cache held none; the handler is then called with all the entries.
C25_Step ==
    /\ (rd.pc = "populate" /\ rd'.pc = "populate" /\ rd' # rd) =>
          \E id \in rd.todo :
              /\ ~wlocked
              /\ rd'.todo = rd.todo \ {id}
              /\ rd'.refs = Put(rd.refs, id, IF id \in DOMAIN byID THEN byID[id] ELSE NilEnt)
    /\ (rd.pc # "handler" /\ rd'.pc = "handler") =>
          /\ rd.pc = "populate"
          /\ DOMAIN rd.refs = rd.ids
          /\ rd' = [rd EXCEPT !.pc = "handler"]

C25_PopulatedBeforeHandler ==
    /\ [][C25_Step]_vars
    /\ [](rd.pc = "handler" =>
            /\ DOMAIN rd.refs = rd.ids
            /\ \A id \in rd.ids : rd.refs[id] = NilEnt \/ rd.refs[id].ID = id)

\* C25 witness: the handler runs with a message of two entries, one with
\* its cached entity and one, whose id the cache did not hold, without.
C25_Witness ==
    /\ rd.pc = "handler"
    /\ rd.ids = {1, 2}
    /\ rd.refs[1] # NilEnt
    /\ rd.refs[2] = NilEnt

\* The entities of a listing.
Range(L) == {L[i] : i \in 1..Len(L)}

\* Both maps hold the whole of the listing ld.listing and nothing else.
Complete ==
    /\ DOMAIN byID = {e.ID : e \in Range(ld.listing)}
    /\ DOMAIN byName = {e.Name : e \in Range(ld.listing)}
    /\ \A id \in DOMAIN byID : byID[id] \in Range(ld.listing) /\ byID[id].ID = id
    /\ \A n \in DOMAIN byName : byName[n] \in Range(ld.listing) /\ byName[n].Name = n

\* C26 (under SpecCache): every lookup of the reader, by id or by name,
\* reads maps that both hold the whole of one listing, the one before the
\* reload or the one after it, never maps in the making; whenever the lock
\* is free the maps are in this condition; a reload whose fetch failed
\* leaves them as they were.
C26_Step ==
    /\ ((rd.pc = "idle" /\ rd'.pc = "returned")
          \/ (rd.pc = "populate" /\ rd'.todo # rd.todo)) => Complete
    /\ (ld.pc = "fetch" /\ ld'.pc = "idle") =>
          byID' = byID /\ byName' = byName /\ ld'.listing = ld.listing

UniqueIn(e, L) == \A x \in Range(L) : (x.ID = e.ID \/ x.Name = e.Name) => x = e

\* C27 (under SpecCache): after a reload that succeeded with listing L,
\* whatever a lookup by id or by name finds is an entity of L, so that an
\* entity of the listing before which L lacks is not found; and an entity
\* of L whose id and name are unique in L is found under its id and under
\* its name, and name to id to name, and id to name to id, come back.
C27_ExactlyListing ==
    (ld.pc = "idle" /\ ld.err = "nil") =>
        LET L == ld.listing
        IN  /\ \A id \in AskIDs : GetByID(id) # NilEnt => GetByID(id) \in Range(L)
            /\ \A n \in Names : GetByName(n) # NilEnt => GetByName(n) \in Range(L)
            /\ \A e \in Range(L) :
                  UniqueIn(e, L) =>
                      /\ GetByID(e.ID) = e
                      /\ GetByName(e.Name) = e
                      /\ GetName(GetID(e.Name)) = e.Name
                      /\ GetID(GetName(e.ID)) = e.ID

\* C27 witness: the reader found an entity before a reload whose listing
\* lacks it; after the reload its name is not found, and the listing has an
\* entity with a unique id and name.
C27_Witness ==
    /\ ld.pc = "idle"
    /\ ld.err = "nil"
    /\ rd.pc = "returned"
    /\ rd.op = "GetByName"
    /\ rd.ret # NilEnt
    /\ rd.ret \notin Range(ld.listing)
    /\ GetByName(rd.ret.Name) = NilEnt
    /\ \E e \in Range(ld.listing) : UniqueIn(e, ld.listing)

\* C28 (under SpecCache): while the REST call for the listing is in flight
\* the lock is not held, so a reader is not kept waiting by it.
C28_FetchOutsideLock == ld.pc = "fetch" => CanRead(wlocked)

\* C29 (under SpecCache): for a name the cache does not hold, the lookup by
\* name returns the nil entity; a websocket request value built from the
\* name has id 0 and building it fails in no way; the REST operation on the
\* name returns "no such dataref" and makes no HTTP request.
C29_Step ==
    (rd.pc = "idle" /\ rd'.pc = "returned" /\ rd'.name \in Names
        /\ rd'.name \notin DOMAIN byName) =>
        CASE rd'.op = "GetByName" -> rd'.ret = NilEnt /\ rd'.err = "none"
          [] rd'.op = "NewDataref" -> rd'.id = 0 /\ rd'.err = "nil"
          [] rd'.op = "SetDatarefValue" -> rd'.err = "no such dataref" /\ ~rd'.http
          [] OTHER -> FALSE

C29_UnknownName == [][C29_Step]_vars

\* C29 witness: with a loaded cache that does not hold the name, the REST
\* operation failed locally.
C29_Witness ==
    /\ ld.pc = "idle"
    /\ ld.err = "nil"
    /\ ld.listing # << >>
    /\ rd.pc = "returned"
    /\ rd.op = "SetDatarefValue"
    /\ rd.name \notin DOMAIN byName
    /\ rd.err = "no such dataref"
    /\ ~rd.http

\* C30 (under SpecCache): NewClient called with a nil config returns a
\* client with the default URL and no handlers, and does not fail.
C30_NilConfigUsable ==
    client.cfg = "nil" =>
        /\ client.st = "ready"
        /\ client.url = "default"
        /\ handlers = NoHandlers
        /\ panic = "none"

(***************************************************************************)
(* Claims about Send, the builders and the frame of the operations         *)
(***************************************************************************)

\* C31 (under Spec): Send reaches its write only through the add of its
\* request to the history; between the add and the write the entry leaves
\* the history only through applyToResult for a result with its id; at a
\* write that succeeds the history holds the request under its id unless
\* the add itself trimmed it or applyToResult removed it; and a result
\* handler that has a request attached has the one added under the id of
\* the result.
C31_Step(t) ==
    /\ (th[t].pc # "send_write" /\ th'[t].pc = "send_write") =>
          requests' = HistAdd(requests, th'[t].req)
    /\ (th[t].pc = "send_write" /\ th[t].req.ReqID \in DOMAIN requests
          /\ th[t].req.ReqID \notin DOMAIN requests') =>
          \E h \in Handles : rl[h].pc = "atr_delete" /\ rl[h].id = th[t].req.ReqID
    /\ (th[t].pc = "send_write" /\ th'[t].pc = "returned" /\ th'[t].ret = "nil") =>
          \/ th[t].req.ReqID \notin DOMAIN requests
          \/ requests[th[t].req.ReqID] = th[t].req

C31_AddBeforeWrite ==
    /\ [][\A t \in Callers : C31_Step(t)]_vars
    /\ [](\A h \in Handles :
            (rl[h].pc = "handler" /\ rl[h].kind = "result" /\ rl[h].req # NilReq) =>
                rl[h].req.ReqID = rl[h].id /\ rl[h].req \in SendReqs)

\* C31 witness: Send returned nil and the handler of the result for its
\* request runs with this request attached.
C31_Witness ==
    \E t \in Callers, h \in Handles :
        /\ th[t].pc = "returned" /\ th[t].op = "send" /\ th[t].ret = "nil"
        /\ rl[h].pc = "handler" /\ rl[h].kind = "result"
        /\ rl[h].req = th[t].req

\* C32 (under Spec): a Send whose write runs while another goroutine is
\* inside Connect (a reconnect in progress, with the Close it starts with)
\* either returns an error or writes to the transport that conn holds and
\* that was not closed or reset; the process does not stop in the write.
C32_SendLiveOrError ==
    [][\A t \in Callers :
         (/\ th[t].pc = "send_write"
          /\ \E u \in Threads \ {t} : th[u].pc \in {"k_close", "k_nil", "k_dial"}
          /\ th'[t] # th[t] \/ panic' = "send")
         => /\ panic' = "none"
            /\ th'[t].pc = "returned"
            /\ th'[t].ret = "nil" => (conn # 0 /\ tstate[conn] \in {"open", "eof"})]_vars

(***************************************************************************)
(* SpecBuild: a caller that begins a request with NewReq, applies builder  *)
(* methods to it and sends it with WSReq.Send, with Connect in between.    *)
(***************************************************************************)

\* The request NewReq returns: the id is set, Type and Params are not.
Begun(id) == [ReqID |-> id, Type |-> "nil", Params |-> "nil"]

\* Mutant of BuildNewReq: the request is put into the history when begun.
BuildNewReqAdd(t) ==
    /\ panic = "none"
    /\ t \in Callers /\ th[t].pc = "idle"
    /\ Len(drawn) < MaxDraws
    /\ messageID' = MessageIDAdd(messageID)
    /\ drawn' = Append(drawn, messageID')
    /\ th' = [th EXCEPT ![t] = Th("building", "build", "none", Begun(messageID'))]
    /\ requests' = HistAdd(requests, Begun(messageID'))
    /\ live' = LiveAdd(live, Begun(messageID'), Dropped(requests, Begun(messageID'), requests'))
    /\ UNCHANGED << harnessVars, codecVars, cacheVars, conn, tstate, handlers, rl, panic >>

\* wsc.NewReq(): &WSReq{ReqID: wsc.messageID.Add(1), wsClient: wsc}; the
\* caller holds the request.
BuildNewReq(t) ==
    /\ panic = "none"
    /\ t \in Callers /\ th[t].pc = "idle"
    /\ Len(drawn) < MaxDraws
    /\ messageID' = MessageIDAdd(messageID)
    /\ drawn' = Append(drawn, messageID')
    /\ th' = [th EXCEPT ![t] = Th("building", "build", "none", Begun(messageID'))]
    /\ UNCHANGED << ledgerVars, harnessVars, codecVars, cacheVars, conn, tstate, handlers, rl, panic >>

\* A builder method (DatarefSet, CommandSubscribe and the others): Type and
\* Params of the request are assigned and the request is returned. The
\* methods that take names read the cache under its read lock. Params that
\* JSON cannot marshal ("nan") are accepted like any other.
BuildMethod(t, type, params) ==
    /\ panic = "none"
    /\ th[t].pc = "building"
    /\ type = "command_subscribe_is_active" => CanRead(wlocked)
    /\ th' = [th EXCEPT ![t].req = [ReqID |-> th[t].req.ReqID, Type |-> type, Params |-> params]]
    /\ UNCHANGED << ledgerVars, harnessVars, codecVars, cacheVars, messageID, drawn, conn, tstate, handlers, rl,
                    panic >>

\* WSReq.Send: r.wsClient.Send(r), whose first statement is the add.
BuildSend(t) ==
    /\ panic = "none"
    /\ th[t].pc = "building"
    /\ th[t].req.Type # "nil"
    /\ requests' = HistAdd(requests, th[t].req)
    /\ live' = LiveAdd(live, th[t].req, Dropped(requests, th[t].req, requests'))
    /\ th' = [th EXCEPT ![t] = Th("send_write", "send", "none", th[t].req)]
    /\ UNCHANGED << harnessVars, codecVars, cacheVars, messageID, drawn, conn, tstate, handlers, rl, panic >>

NextBuild ==
    \/ \E t \in Callers : BuildNewReq(t)
    \/ \E t \in Callers, type \in ReqTypes, params \in ReqParams : BuildMethod(t, type, params)
    \/ \E t \in Callers : BuildSend(t)
    \/ \E t \in Callers : SendWrite(t)
    \/ \E t \in Callers : Resume(t)
    \/ \E t \in Callers : ConnectCheck(t)
    \/ \E t \in Callers : ConnectDial(t)

SpecBuild == Init /\ [][NextBuild]_vars

\* C33 (under SpecBuild): beginning a request adds one to the counter and
\* gives the caller a request with the new id; a builder method changes
\* the caller's request only and keeps its id; neither changes the history
\* or the connection, and neither fails, whatever the params; the history
\* changes only when the request is sent.
C33_Step(t) ==
    /\ (th[t].pc = "idle" /\ th'[t].pc = "building") =>
          /\ messageID' = messageID + 1
          /\ th'[t].req = Begun(messageID')
    /\ (th[t].pc = "building" /\ th'[t].pc = "building") =>
          /\ messageID' = messageID
          /\ th'[t].req.ReqID = th[t].req.ReqID
    /\ th'[t].pc = "building" =>
          /\ UNCHANGED << requests, conn, tstate, rl, byID, byName, handlers >>
          /\ panic' = "none"
    /\ th[t].pc = "building" =>
          \/ th'[t].pc = "building"
          \/ th'[t].pc = "send_write" /\ th'[t].req = th[t].req

C33_BuildingIsLocal == [][\A t \in Callers : C33_Step(t)]_vars

\* C33 witness: on a connected client with a request in the history the
\* caller holds a second request it has built with params that cannot be
\* marshalled, and the history holds the first request only.
C33_Witness ==
    \E t \in Callers :
        /\ th[t].pc = "building"
        /\ th[t].req.Type = "dataref_set_values"
        /\ th[t].req.Params = "nan"
        /\ th[t].req.ReqID = 2
        /\ DOMAIN requests = {1}
        /\ conn # 0

(***************************************************************************)
(* SpecEnrich: the codec and the read loop's populate step with a loaded   *)
(* cache. A dataref update is drawn together with the listing the cache    *)
(* was loaded from; the frame is decoded, the message populated and handed *)
(* to its handler.                                                         *)
(***************************************************************************)

\* The dataref updates all of whose keys are ids.
EnrichFrames ==
    {f \in RawFrames :
        f.type = "dataref_update_values" /\ \A k \in DOMAIN f.data : ParseUint(k).ok}

\* The listings of the caches: empty, or one entity.
EnrichListings == {L \in Listings : Len(L) <= 1}

\* The maps loadCommands leaves for a listing.
RECURSIVE Loaded(_, _)
Loaded(L, n) ==
    IF n = 0 THEN [byID |-> EmptyMap, byName |-> EmptyMap]
    ELSE LET m == Loaded(L, n - 1)
         IN  [byID |-> Put(m.byID, L[n].ID, L[n]), byName |-> Put(m.byName, L[n].Name, L[n])]

InitEnrich ==
    /\ requests = EmptyMap
    /\ live = EmptyMap
    /\ lt = [t \in LedgerThreads |-> LtIdle]
    /\ lastOp = NoOp
    /\ rhlock = RhFree
    /\ messageID = 0
    /\ drawn = << >>
    /\ conn = 0
    /\ tstate = [h \in Handles |-> "none"]
    /\ th = [t \in Threads |-> IF t \in Callers THEN ThIdle ELSE ThNone]
    /\ rl = [h \in Handles |-> RlNone]
    /\ panic = "none"
    /\ handlers = AllHandlers
    /\ client = ReadyClient
    /\ drefs = DrefsIdle
    /\ wlocked = FALSE
    /\ rd = RdIdle
    /\ \E L \in EnrichListings :
          /\ ld = [LdIdle EXCEPT !.listing = L, !.err = "nil"]
          /\ byID = Loaded(L, Len(L)).byID
          /\ byName = Loaded(L, Len(L)).byName
    /\ cframe \in EnrichFrames
    /\ cout = NoOut

\* readLoop, lines 55-72: toMessage returned the message and
\* populateDatarefs is called with it.
EnrichUpdate ==
    /\ cout.err = "nil"
    /\ RdUpdate(DOMAIN cout.data)

NextEnrich ==
    \/ CodecDecode
    \/ EnrichUpdate
    \/ \E id \in DOMAIN cout.data : RdPopulate(id)
    \/ RdHandler
    \/ RdDone

SpecEnrich == InitEnrich /\ [][NextEnrich]_vars

\* Mutant of DecodedRef: the codec looks the id up in the cache.
DecodedRefCached(id) == GetByID(id)

\* WSDatarefValuesMap.UnmarshalJSON, line 241: &DatarefValue{Value: val};
\* the Dataref of the entry for id is nil.
DecodedRef(id) == NilEnt

\* The entity reference of the message's entry for id: the one the codec
\* left until populateDatarefs has assigned it.
MsgRef(id) == IF id \in DOMAIN rd.refs THEN rd.refs[id] ELSE DecodedRef(id)

\* C34 (under SpecEnrich): whatever the cache holds, the message the codec
\* returns for a frame has every entity reference absent; the decoding
\* leaves the cache as it is and its results are those of the frame alone;
\* the reference of an entry changes only in the populate step of this
\* entry, which the read loop makes after the decoding.
C34_Step ==
    /\ (cout = NoOut /\ cout' # NoOut) =>
          /\ cout' \in ToMessage(cframe)
          /\ UNCHANGED << byID, byName, rd >>
    /\ \A id \in DOMAIN cout.data :
          (MsgRef(id)' # MsgRef(id) /\ MsgRef(id) = NilEnt) =>
              rd.pc = "populate" /\ id \in rd.todo /\ cout.err = "nil"

C35_Step(t, req) ==
    (/\ LAdd(t, req)
     /\ Cardinality(DOMAIN requests) = maxReqHistory
     /\ req.ReqID \notin DOMAIN requests)
    => /\ req.ReqID \in DOMAIN requests' <=> \E k \in DOMAIN requests : k < req.ReqID
       /\ (\A k \in DOMAIN requests : req.ReqID < k) =>
             /\ requests' = requests
             /\ HistGet(requests', req.ReqID) = NilReq

C35_LowIdEvictsItself == [][\A t \in LedgerThreads, req \in LedgerReqs : C35_Step(t, req)]_vars

\* C35 witness: the add of a request to a full history dropped this request
\* and nothing else.
C35_Witness ==
    /\ lastOp.op = "add"
    /\ lastOp.dropped = {lastOp.id}
    /\ Cardinality(DOMAIN requests) = maxReqHistory
    /\ \A k \in DOMAIN requests : lastOp.id < k

\* C36 (under SpecCache): a reload whose listing call fails returns the
\* error, releases the lock and leaves both maps as they are; as nothing
\* changes them from the start of the call to the failure, they are the
\* maps of before the call.
C36_Step ==
    /\ (ld.pc = "fetch" /\ ld'.pc = "idle") =>
          /\ ld'.err = "http"
          /\ byID' = byID
          /\ byName' = byName
          /\ ld'.listing = ld.listing
          /\ ~wlocked'
    /\ (ld.pc = "idle" /\ ld'.pc = "fetch") => UNCHANGED << byID, byName >>
    /\ (ld.pc = "fetch" /\ ld'.pc = "fetch") => UNCHANGED << byID, byName >>

C36_FailedReloadKeepsMaps == [][C36_Step]_vars

\* C36 witness: a reload failed after an earlier one had loaded a listing,
\* and the reader then found an entity of that listing.
C36_Witness ==
    /\ ld.pc = "idle"
    /\ ld.err = "http"
    /\ rd.pc = "returned"
    /\ rd.op = "GetByID"
    /\ rd.ret # NilEnt
    /\ rd.ret \in Range(ld.listing)
    /\ GetByID(rd.id) = rd.ret

(***************************************************************************)
(* SpecLoad: Client.LoadCache. byID, byName, wlocked and ld are the cache  *)
(* of commands and loadCommands; drefs holds the cache of datarefs, its    *)
(* lock and the position of LoadCache and loadDatarefs.                    *)
(***************************************************************************)

\* LoadCache is called: loadCommands is called first.
LoadCacheCall ==
    /\ Usable
    /\ drefs.pc = "idle"
    /\ ld.pc = "idle"
    /\ drefs' = [drefs EXCEPT !.pc = "commands", !.ret = "none"]
    /\ ld' = [ld EXCEPT !.err = "none"]
    /\ UNCHANGED << ledgerVars, harnessVars, codecVars, clientVars, byID, byName, wlocked, rd, client >>

\* Mutant of Failed: the error of loadCommands is not looked at.
FailedNever(err) == FALSE

\* LoadCache, lines 393 and 396: err != nil.
Failed(err) == err # "nil"

\* LoadCache, lines 393-395: loadCommands returned an error, which is
\* returned.
LoadCacheCommandsFailed ==
    /\ Usable
    /\ drefs.pc = "commands"
    /\ ld.pc = "idle" /\ ld.err # "none"
    /\ Failed(ld.err)
    /\ drefs' = [drefs EXCEPT !.pc = "idle", !.ret = "commands_error"]
    /\ UNCHANGED << ledgerVars, harnessVars, codecVars, clientVars, byID, byName, wlocked, ld, rd, client >>

\* LoadCache, line 396, loadDatarefs, line 204: loadCommands returned nil;
\* loadDatarefs is called and takes datarefsLock.
LoadCacheDatarefs ==
    /\ Usable
    /\ drefs.pc = "commands"
    /\ ld.pc = "idle" /\ ld.err # "none"
    /\ ~Failed(ld.err)
    /\ ~drefs.locked
    /\ drefs' = [drefs EXCEPT !.pc = "fetch", !.locked = TRUE]
    /\ UNCHANGED << ledgerVars, harnessVars, codecVars, clientVars, byID, byName, wlocked, ld, rd, client >>

\* loadDatarefs, lines 207-210, LoadCache, lines 396-398: GetDatarefs
\* failed; the lock is released and the error returned.
DrefsFetchFail ==
    /\ Usable
    /\ drefs.pc = "fetch"
    /\ drefs' = [drefs EXCEPT !.pc = "idle", !.ret = "datarefs_error", !.locked = FALSE]
    /\ UNCHANGED << ledgerVars, harnessVars, codecVars, clientVars, byID, byName, wlocked, ld, rd, client >>

\* loadDatarefs, lines 207-213: GetDatarefs returned listing L and both maps
\* are made anew.
DrefsFetch(L) ==
    /\ Usable
    /\ drefs.pc = "fetch"
    /\ drefs' = [drefs EXCEPT !.pc = "fill", !.listing = L, !.i = 1,
                              !.byID = Made(drefs.byID), !.byName = Made(drefs.byName)]
    /\ UNCHANGED << ledgerVars, harnessVars, codecVars, clientVars, byID, byName, wlocked, ld, rd, client >>

\* loadDatarefs, lines 215-218: one iteration of the loop over the listing.
DrefsFill ==
    /\ Usable
    /\ drefs.pc = "fill"
    /\ drefs.i <= Len(drefs.listing)
    /\ LET dataref == drefs.listing[drefs.i]
       IN  drefs' = [drefs EXCEPT !.i = drefs.i + 1,
                                  !.byID = Put(drefs.byID, dataref.ID, dataref),
                                  !.byName = Put(drefs.byName, dataref.Name, dataref)]
    /\ UNCHANGED << ledgerVars, harnessVars, codecVars, clientVars, byID, byName, wlocked, ld, rd, client >>

\* loadDatarefs, line 220, LoadCache, line 399: return nil.
DrefsReturn ==
    /\ Usable
    /\ drefs.pc = "fill"
    /\ drefs.i > Len(drefs.listing)
    /\ drefs' = [drefs EXCEPT !.pc = "idle", !.ret = "nil", !.locked = FALSE]
    /\ UNCHANGED << ledgerVars, harnessVars, codecVars, clientVars, byID, byName, wlocked, ld, rd, client >>

NextLoad ==
    \/ LoadCacheCall
    \/ drefs.pc = "commands" /\ ld.err = "none" /\ LoadLock
    \/ LoadFetchFail
    \/ \E L \in Listings : LoadFetch(L)
    \/ LoadFill
    \/ LoadReturn
    \/ LoadCacheCommandsFailed
    \/ LoadCacheDatarefs
    \/ DrefsFetchFail
    \/ \E L \in Listings : DrefsFetch(L)
    \/ DrefsFill
    \/ DrefsReturn

SpecLoad == Init /\ [][NextLoad]_vars

\* C37 (under SpecLoad): LoadCache reloads the commands first; while that
\* reload runs the dataref cache is not touched, and when it failed
\* LoadCache returns the error at once; the dataref reload begins only
\* after the command reload succeeded, and when it fails LoadCache returns
\* its error with the command cache holding the new listing and the
\* dataref cache the maps it had.
C37_Step ==
    /\ drefs.pc = "commands" =>
          /\ drefs'.byID = drefs.byID /\ drefs'.byName = drefs.byName
          /\ drefs'.listing = drefs.listing
    /\ (drefs.pc = "commands" /\ drefs'.pc = "idle") =>
          /\ ld.err = "http"
          /\ drefs'.ret = "commands_error"
          /\ ~drefs'.locked
    /\ (drefs.pc = "commands" /\ drefs'.pc # "commands") =>
          (drefs'.pc = "idle" \/ (drefs'.pc = "fetch" /\ ld.err = "nil" /\ ld.pc = "idle"))
    /\ drefs.pc \in {"fetch", "fill"} => UNCHANGED << byID, byName, ld, wlocked >>
    /\ (drefs.pc = "fetch" /\ drefs'.pc = "idle") =>
          /\ drefs'.ret = "datarefs_error"
          /\ drefs'.byID = drefs.byID /\ drefs'.byName = drefs.byName
          /\ drefs'.listing = drefs.listing
          /\ ld.err = "nil"
          /\ byID = Loaded(ld.listing, Len(ld.listing)).byID
          /\ byName = Loaded(ld.listing, Len(ld.listing)).byName

C37_LoadCacheOrder == [][C37_Step]_vars

\* C37 witness: LoadCache returned the error of the dataref reload; the
\* command cache holds the listing just loaded and the dataref cache the
\* different listing of an earlier LoadCache.
C37_Witness ==
    /\ drefs.pc = "idle"
    /\ drefs.ret = "datarefs_error"
    /\ ld.err = "nil"
    /\ ld.listing # << >>
    /\ byID = Loaded(ld.listing, Len(ld.listing)).byID
    /\ drefs.listing # << >>
    /\ drefs.listing # ld.listing
    /\ drefs.byID = Loaded(drefs.listing, Len(drefs.listing)).byID

(***************************************************************************)
(* SpecReconnect: requests are sent while connections are lost and         *)
(* replaced. The caller draws ids, sends, connects and closes; a read loop *)
(* that reads ECONNRESET starts its reconnect loop, and Dial can hand out  *)
(* one connection more than MaxConns, so that a reconnect can succeed. A   *)
(* request is sent with the id NewReq drew last; no handler is registered. *)
(***************************************************************************)

ReconnectHandles == 1..(MaxConns + 1)

ReconnectThreads == Callers \cup ({"reconnect"} \X ReconnectHandles)

InitReconnect ==
    /\ requests = EmptyMap
    /\ live = EmptyMap
    /\ lt = [t \in LedgerThreads |-> LtIdle]
    /\ lastOp = NoOp
    /\ rhlock = RhFree
    /\ messageID = 0
    /\ drawn = << >>
    /\ conn = 0
    /\ tstate = [h \in ReconnectHandles |-> "none"]
    /\ th = [t \in ReconnectThreads |-> IF t \in Callers THEN ThIdle ELSE ThNone]
    /\ rl = [h \in ReconnectHandles |-> RlNone]
    /\ panic = "none"
    /\ handlers = NoHandlers
    /\ InitCache
    /\ InitCodec

NextReconnect ==
    \/ \E t \in Callers : NewReq(t)
    \/ \E t \in Callers, req \in SendReqs : req.ReqID = messageID /\ SendAdd(t, req)
    \/ \E t \in Callers : SendWrite(t)
    \/ \E t \in Callers : Resume(t)
    \/ \E t \in ReconnectThreads : ConnectCheck(t)
    \/ \E t \in Callers : CloseCheck(t)
    \/ \E t \in ReconnectThreads : CloseConn(t)
    \/ \E t \in ReconnectThreads : CloseNil(t)
    \/ \E t \in ReconnectThreads : ConnectDial(t)
    \/ \E h \in ReconnectHandles : PeerReset(h)
    \/ \E h \in ReconnectHandles : ReadCall(h)
    \/ \E h \in ReconnectHandles, f \in ConnFrames : ReadRecv(h, f)
    \/ \E h \in ReconnectHandles : ReadNext(h)

SpecReconnect == InitReconnect /\ [][NextReconnect]_vars

\* A goroutine is inside Connect or Close, or enters one with this step.
C38_InConnectOrClose(t) ==
    \/ th[t].pc \in {"k_close", "k_nil", "k_dial", "x_close", "x_nil"}
    \/ th[t].pc = "idle" /\ th'[t].op \in {"connect", "close"}

\* C38 (under SpecReconnect): every step of Connect and of Close, by the
\* caller or by a reconnect loop, and the step that starts a reconnect loop
\* leave the request history and the message id as they were; every id
\* drawn is greater than all ids drawn before it, whatever connections were
\* lost and made in between.
C38_Step ==
    /\ \A t \in DOMAIN th :
          (th'[t] # th[t] /\ C38_InConnectOrClose(t))
             => /\ requests' = requests
                /\ messageID' = messageID
                /\ drawn' = drawn
    /\ \A h \in DOMAIN rl :
          (rl[h].pc = "blocked" /\ rl'[h].pc = "exited")
             => /\ requests' = requests
                /\ messageID' = messageID
                /\ drawn' = drawn
    /\ drawn' # drawn
          => /\ drawn' = Append(drawn, messageID')
             /\ \A i \in DOMAIN drawn : drawn[i] < messageID'

C38_ReconnectKeepsLedger == [][C38_Step]_vars

\* C38 witness: a Send recorded its request and its write failed on the
\* lost connection; the reconnect loop has since connected anew, and the
\* request is in the history and the message id is the id drawn.
C38_Witness ==
    \E t \in Callers, h \in DOMAIN tstate :
        /\ th[t].pc = "returned" /\ th[t].op = "send" /\ th[t].ret = "write_error"
        /\ th[t].req.ReqID \in DOMAIN requests
        /\ requests[th[t].req.ReqID] = th[t].req
        /\ drawn # << >> /\ messageID = drawn[Len(drawn)]
        /\ th[<< "reconnect", h >>].pc = "done"
        /\ tstate[h] = "closed"
        /\ conn # 0 /\ conn # h /\ tstate[conn] = "open"

(***************************************************************************)
(* SpecDispatch: the caller connects, and connects again, while the read   *)
(* loops dispatch results to the result handler. Nothing is sent, so every *)
(* result is handed to the handler without a request. On connection c the  *)
(* peer sends results whose req_id is c: a message in a handler shows the  *)
(* connection it was received from.                                        *)
(***************************************************************************)

\* The frames the peer sends on connection c.
DispatchFrames(c) == {f \in Frames : f.type = "result" /\ f.id = c /\ f.body = "ok"}

InitDispatch ==
    /\ requests = EmptyMap
    /\ live = EmptyMap
    /\ lt = [t \in LedgerThreads |-> LtIdle]
    /\ lastOp = NoOp
    /\ rhlock = RhFree
    /\ messageID = 0
    /\ drawn = << >>
    /\ conn = 0
    /\ tstate = [h \in ReconnectHandles |-> "none"]
    /\ th = [t \in ReconnectThreads |-> IF t \in Callers THEN ThIdle ELSE ThNone]
    /\ rl = [h \in ReconnectHandles |-> RlNone]
    /\ panic = "none"
    /\ handlers = AllHandlers
    /\ InitCache
    /\ InitCodec

NextDispatch ==
    \/ \E t \in Callers : Resume(t)
    \/ \E t \in Callers : ConnectCheck(t)
    \/ \E t \in Callers : CloseConn(t)
    \/ \E t \in Callers : CloseNil(t)
    \/ \E t \in Callers : ConnectDial(t)
    \/ \E h \in ReconnectHandles : ReadCall(h)
    \/ \E h \in ReconnectHandles : \E f \in DispatchFrames(rl[h].c) : ReadRecv(h, f)
    \/ \E h \in ReconnectHandles : ReadApplyGet(h)
    \/ \E h \in ReconnectHandles : ReadNext(h)

SpecDispatch == InitDispatch /\ [][NextDispatch]_vars

\* C39 (under SpecDispatch): on one connection handlers are called one at
\* a time: while the handler for a frame of a connection runs, no frame
\* received later from this connection is dispatched, so no two handlers
\* run at once with messages of the same connection.
C39_OneHandlerPerConnection ==
    \A h \in DOMAIN rl, g \in DOMAIN rl :
        (h # g /\ rl[h].pc = "handler" /\ rl[g].pc = "handler")
            => rl[h].id # rl[g].id

(***************************************************************************)
(* SpecLock: reqHistory.lock. One goroutine calls Send; the other is the   *)
(* read loop, which receives results, calls applyToResult and then the     *)
(* result handler, and the handler can call Send. Every Lock, RLock and    *)
(* deferred Unlock of add, get and delete is a step, and lt holds each     *)
(* goroutine's position.                                                   *)
(***************************************************************************)

Sender == "g1"
Reader == "g2"

\* sync.RWMutex.Lock returns when nobody holds the lock.
CanLock(l) == l.writer = "none" /\ l.readers = {}

\* sync.RWMutex.RLock returns when nobody holds the lock for writing.
CanRLock(l) == l.writer = "none"

\* Send is called with req, by the sender or by the result handler that the
\* read loop is running; Send calls add, which calls rh.lock.Lock().
LockSendCall(t, req) ==
    /\ \/ t = Sender /\ lt[t].pc = "idle"
       \/ t = Reader /\ lt[t].pc = "handler"
    /\ lt' = [lt EXCEPT ![t] = [pc |-> "add_lock", id |-> req.ReqID, req |-> req]]
    /\ UNCHANGED << requests, live, rhlock, lastOp, clientVars, codecVars, cacheVars >>

\* add, line 333: rh.lock.Lock() returns.
LockAddLock(t) ==
    /\ lt[t].pc = "add_lock"
    /\ CanLock(rhlock)
    /\ rhlock' = [rhlock EXCEPT !.writer = t]
    /\ lt' = [lt EXCEPT ![t].pc = "add"]
    /\ UNCHANGED << requests, live, lastOp, clientVars, codecVars, cacheVars >>

\* Mutant of LockAddBody: the lock is kept while Send writes to the
\* transport.
LockAddBodyHeld(t) ==
    /\ lt[t].pc = "add"
    /\ requests' = HistAdd(requests, lt[t].req)
    /\ live' = LiveAdd(live, lt[t].req, Dropped(requests, lt[t].req, requests'))
    /\ lt' = [lt EXCEPT ![t].pc = "write"]
    /\ UNCHANGED << rhlock, lastOp, clientVars, codecVars, cacheVars >>

\* add, lines 334-346: the body of add and the deferred Unlock; Send then
\* calls websocket.JSON.Send (part_003 line 104).
LockAddBody(t) ==
    /\ lt[t].pc = "add"
    /\ requests' = HistAdd(requests, lt[t].req)
    /\ live' = LiveAdd(live, lt[t].req, Dropped(requests, lt[t].req, requests'))
    /\ rhlock' = [rhlock EXCEPT !.writer = "none"]
    /\ lt' = [lt EXCEPT ![t].pc = "write"]
    /\ UNCHANGED << lastOp, clientVars, codecVars, cacheVars >>

\* Send, lines 104-108: websocket.JSON.Send returns, after however long,
\* and Send returns to the sender or to the handler.
LockWriteReturn(t) ==
    /\ lt[t].pc = "write"
    /\ lt' = [lt EXCEPT ![t] = IF t = Reader
                               THEN [pc |-> "handler_sent", id |-> 0, req |-> NilReq]
                               ELSE LtIdle]
    /\ UNCHANGED << requests, live, rhlock, lastOp, clientVars, codecVars, cacheVars >>

\* readLoop, lines 62-64: a result for reqID was received and applyToResult
\* calls get, which calls rh.lock.RLock().
LockResult(t, reqID) ==
    /\ t = Reader /\ lt[t].pc = "idle"
    /\ lt' = [lt EXCEPT ![t] = [pc |-> "get_lock", id |-> reqID, req |-> NilReq]]
    /\ UNCHANGED << requests, live, rhlock, lastOp, clientVars, codecVars, cacheVars >>

\* get, line 350: rh.lock.RLock() returns.
LockGetRLock(t) ==
    /\ lt[t].pc = "get_lock"
    /\ CanRLock(rhlock)
    /\ rhlock' = [rhlock EXCEPT !.readers = rhlock.readers \cup {t}]
    /\ lt' = [lt EXCEPT ![t].pc = "get"]
    /\ UNCHANGED << requests, live, lastOp, clientVars, codecVars, cacheVars >>

\* get, lines 351-352, applyToResult, lines 362-363: the read and the
\* deferred RUnlock; with req nil applyToResult returns and the handler is
\* called, otherwise delete is called.
LockGetBody(t) ==
    /\ lt[t].pc = "get"
    /\ LET req == HistGet(requests, lt[t].id)
       IN  lt' = [lt EXCEPT ![t].pc = IF req # NilReq THEN "delete_lock" ELSE "handler",
                            ![t].req = req]
    /\ rhlock' = [rhlock EXCEPT !.readers = rhlock.readers \ {t}]
    /\ UNCHANGED << requests, live, lastOp, clientVars, codecVars, cacheVars >>

\* delete, line 356: rh.lock.Lock() returns.
LockDeleteLock(t) ==
    /\ lt[t].pc = "delete_lock"
    /\ CanLock(rhlock)
    /\ rhlock' = [rhlock EXCEPT !.writer = t]
    /\ lt' = [lt EXCEPT ![t].pc = "delete"]
    /\ UNCHANGED << requests, live, lastOp, clientVars, codecVars, cacheVars >>

\* delete, lines 357-358, applyToResult, line 365, readLoop, line 65: the
\* delete and the deferred Unlock; the handler is called.
LockDeleteBody(t) ==
    /\ lt[t].pc = "delete"
    /\ requests' = HistDelete(requests, lt[t].id)
    /\ live' = LiveRemove(live, lt[t].id)
    /\ rhlock' = [rhlock EXCEPT !.writer = "none"]
    /\ lt' = [lt EXCEPT ![t].pc = "handler"]
    /\ UNCHANGED << lastOp, clientVars, codecVars, cacheVars >>

\* The result handler returns.
LockHandlerReturn(t) ==
    /\ lt[t].pc \in {"handler", "handler_sent"}
    /\ lt' = [lt EXCEPT ![t] = LtIdle]
    /\ UNCHANGED << requests, live, rhlock, lastOp, clientVars, codecVars, cacheVars >>

NextLock ==
    \/ \E t \in LedgerThreads, req \in LedgerReqs : LockSendCall(t, req)
    \/ \E t \in LedgerThreads : LockAddLock(t)
    \/ \E t \in LedgerThreads : LockAddBody(t)
    \/ \E t \in LedgerThreads : LockWriteReturn(t)
    \/ \E t \in LedgerThreads, reqID \in ReqIDs : LockResult(t, reqID)
    \/ \E t \in LedgerThreads : LockGetRLock(t)
    \/ \E t \in LedgerThreads : LockGetBody(t)
    \/ \E t \in LedgerThreads : LockDeleteLock(t)
    \/ \E t \in LedgerThreads : LockDeleteBody(t)
    \/ \E t \in LedgerThreads : LockHandlerReturn(t)

\* NewClient with the result handler set, and both goroutines outside any
\* call.
InitLock ==
    /\ requests = EmptyMap
    /\ live = EmptyMap
    /\ lt = [t \in LedgerThreads |-> LtIdle]
    /\ lastOp = NoOp
    /\ rhlock = RhFree
    /\ InitClient
    /\ handlers = AllHandlers

SpecLock == InitLock /\ [][NextLock]_vars

\* Goroutine t holds reqHistory.lock.
C40_Holds(t) == rhlock.writer = t \/ t \in rhlock.readers

\* C40 (under SpecLock): reqHistory.lock is held only inside the bodies of
\* add, get and delete, so a goroutine that is in a handler or in the
\* transport write of Send holds no lock; a goroutine that waits for the
\* lock waits for another goroutine that is inside such a body and leaves
\* it without waiting for anything, so a handler that calls Send is not
\* stopped by the lock; and while the sender is in the transport write the
\* read loop's get and delete take the lock at once.
C40_NoLockAcrossCalls ==
    /\ \A t \in LedgerThreads :
          /\ lt[t].pc \in {"handler", "handler_sent", "write"} => ~C40_Holds(t)
          /\ rhlock.writer = t => lt[t].pc \in {"add", "delete"}
          /\ t \in rhlock.readers => lt[t].pc = "get"
          /\ lt[t].pc \in {"add_lock", "delete_lock"} =>
                \/ ENABLED (LockAddLock(t) \/ LockDeleteLock(t))
                \/ \E u \in LedgerThreads \ {t} :
                      /\ C40_Holds(u)
                      /\ ENABLED (LockAddBody(u) \/ LockGetBody(u) \/ LockDeleteBody(u))
          /\ lt[t].pc = "get_lock" =>
                \/ ENABLED LockGetRLock(t)
                \/ \E u \in LedgerThreads \ {t} :
                      /\ rhlock.writer = u
                      /\ ENABLED (LockAddBody(u) \/ LockDeleteBody(u))
    /\ lt[Sender].pc = "write" =>
          /\ lt[Reader].pc = "get_lock" => ENABLED LockGetRLock(Reader)
          /\ lt[Reader].pc = "delete_lock" => ENABLED LockDeleteLock(Reader)
          /\ lt[Reader].pc = "add_lock" => ENABLED LockAddLock(Reader)

\* C40 witness: the sender is in the transport write of its Send while the
\* result handler, called by the read loop, is in the add of its own Send
\* and holds the lock.
C40_Witness ==
    /\ lt[Sender].pc = "write"
    /\ lt[Reader].pc = "add"
    /\ rhlock.writer = Reader
    /\ lt[Reader].req \in LedgerReqs

====
